---- MODULE Spec2Model ----
(***************************************************************************)
(* A model of speedtest-rs: the latency race of                            *)
(* SpeedTester::select_fastest_server and the download / upload phases of  *)
(* SpeedTester::download and SpeedTester::upload (src/src/speed_tester.rs) *)
(* with the Config accessors they read (speedtest-rs-core/src/model.rs).   *)
(*                                                                         *)
(* The module holds several machines over one set of variables.  Each      *)
(* machine has its own initial predicate and next-state relation; the      *)
(* variables of the machines that are not running stay at their idle       *)
(* values.  Spec is the union of the machines.                             *)
(***************************************************************************)
EXTENDS Integers, Sequences, FiniteSets, Bags, TLC

(***************************************************************************)
(* Bounds of the model.                                                    *)
(***************************************************************************)
\* the largest server list handed to select_fastest_server
MaxServers == 2
\* the largest server-config.threadcount of a Config
MaxThreadCount == 1
\* the largest download.threadsperurl of a Config
MaxThreadsPerUrl == 1
\* the largest upload.threads of a Config
MaxUploadThreads == 2
\* the largest upload.maxchunkcount of a Config
MaxChunkCount == 2
\* the largest download.testlength / upload.testlength of a Config (seconds)
MaxTestLength == 1
\* the most bytes the bodies of a download phase deliver
MaxBytes == 4
\* the stream sizes tried lie within one byte of k full chunks, k up to this
MaxStreamChunks == 3
\* the longest server-config.ignoreids string (characters)
MaxIgnoreLen == 3
\* the most calls made on one SpeedTester
MaxCalls == 3
\* the most bytes each counter of a run collects
MaxRunBytes == 2
\* the longest a single request is watched, and the longest phase (seconds)
MaxRequestAge == 12
\* largest whole upload.ratio an accessor call is made with
MaxRatio == 8
\* largest download.threadsperurl a task-size call is made with
MaxCallThreadsPerUrl == 2
\* largest upload.maxchunkcount a task-size call is made with
MaxCallChunkCount == 8
\* largest thread count a SpeedTestUrl is built with
MaxUrlThreads == 2

(***************************************************************************)
(* Program constants.                                                      *)
(***************************************************************************)
\* request_timeout: Duration::from_secs(10), in seconds
Timeout == 10
\* compare_times: 3
compare_times == 3

\* UPLOAD_CHUNK: [u8; 1024 * 16]
UPLOAD_CHUNK_LEN == 16384

\* let size = 16 * 16 * 1025 (test_create_zero_stream)
TestStreamSize == 16 * 16 * 1025

\* upload.ratio is an f32: the model keeps it as a whole number of halves, so
\* 2.5 is kept as 5
HalvesPerUnit == 2

\* upload.ratio values of the Config of an upload phase: 0.0 and 2.0
RatioChoices == {0, 2 * HalvesPerUnit}

\* upload.ratio values accessor calls are made with: negative ones, fractions,
\* and values past the length of the sequence
RatioValues == (0 - 2 * HalvesPerUnit)..(MaxRatio * HalvesPerUnit)

\* lengths of the chunks resp.chunk() can yield
ChunkLens == {1, 3}

\* Elapsed times (seconds) a successful probe request can measure.  The
\* request carries .timeout(timeout), so a success is measured below it.
ElapsedChoices == {1, 7}

(***************************************************************************)
(* State of the latency race (select_fastest_server and its probe tasks).  *)
(***************************************************************************)
VARIABLES
    servers,            \* the Vec<Server> argument, as the set of its indices 1..n
    dead,               \* environment: the servers whose every request fails
    sel_pc,             \* position of select_fastest_server
    chan,               \* the mpsc channel's queue of (server, delay) reports
    chan_cap,           \* the channel's capacity; 0 while no channel was created
    tx_held,            \* the selector still holds the original Sender `tx`
    rx_alive,           \* the Receiver `rx` has not been dropped
    shutdown,           \* the value of the watch channel
    shutdown_tx_alive,  \* watch Sender `shutdown_tx` has not been dropped
    probe,              \* per spawned server: the probe task's state
    server_delays,      \* the selector's Vec of collected reports
    first_report,       \* <<>> or <<the first report received>>
    nrecv,              \* number of reports rx.recv() has returned
    result              \* 0, or the server returned by Ok(server)

(***************************************************************************)
(* State of a download or upload phase (download, upload and their tasks). *)
(***************************************************************************)
VARIABLES
    kind,               \* "download" or "upload": which function is running
    config,             \* the &Config argument (the fields the phase reads)
    ph_pc,              \* position of download() / upload()
    elapsed,            \* seconds since the phase's sleep was created
    next_index,         \* the next item of stream::iter(0..N)
    inflight,           \* the futures for_each_concurrent holds, a bag of task states
    starts,             \* per task index: how many times it was started
    ndone,              \* tasks that ran to their end
    nfailed,            \* tasks ended by a request or stream error
    ndropped,           \* tasks dropped unfinished when the phase returned
    task_size,          \* per task index: the size it was started with (0: not started)
    counter,            \* the ByteCounter (Arc<AtomicU64>) of the phase
    ph_shutdown,        \* the value of the phase's watch channel
    conns,              \* upload bodies held by connection tasks of the HTTP client
                        \* after their requests were dropped, a bag
    counted             \* history: the lengths of the chunks counted so far, summed

\* what the phase's own future holds: everything but the counter, which the
\* tasks share with the caller, and the connections of the HTTP client
taskVars == <<kind, config, ph_pc, elapsed, next_index, inflight, starts, ndone,
              nfailed, ndropped, task_size, ph_shutdown>>

phaseVars == <<taskVars, counter, conns, counted>>

selVars == <<servers, dead, sel_pc, chan, chan_cap, tx_held, rx_alive, shutdown,
             shutdown_tx_alive, probe, server_delays, first_report, nrecv, result>>

(***************************************************************************)
(* State of one create_zero_stream(size, uploaded) consumed by a reader.   *)
(***************************************************************************)
VARIABLES
    zs_pc,              \* "idle", "open" (being consumed) or "done" (None was yielded)
    zs_size,            \* the `size` argument
    zs_remaining,       \* the state of stream::unfold
    zs_chunks,          \* the lengths of the chunks yielded so far
    zs_counter0,        \* the value of `uploaded` when the stream was created
    zs_counter          \* the value of `uploaded`

streamVars == <<zs_pc, zs_size, zs_remaining, zs_chunks, zs_counter0, zs_counter>>

(***************************************************************************)
(* State of one fetch_config / fetch_servers call.                         *)
(***************************************************************************)
VARIABLES
    fc_kind,            \* "config" or "servers": which function is running
    fc_threads,         \* the `threads` argument of fetch_servers (0 for fetch_config)
    fc_env,             \* environment: per candidate URL, what a GET of it comes to
    fc_pc,              \* position of the function
    fc_idx,             \* how many items the `for url in ..` loop has taken
    fc_log,             \* the URLs requested so far, in order
    fc_result           \* <<>>, or the value returned

fetchVars == <<fc_kind, fc_threads, fc_env, fc_pc, fc_idx, fc_log, fc_result>>

(***************************************************************************)
(* State of one HTTP call of the core, seen against the clock.             *)
(***************************************************************************)
VARIABLES
    rq_site,            \* which call: "config", "servers", "probe", "download", "upload"
    rq_pc,              \* "idle", "pending", "answered", "timed_out" or "dropped"
    rq_age,             \* seconds since the request was sent
    rq_peer,            \* environment: the second at which the peer answers, -1 for never
    rq_phase            \* the duration D of the phase that owns a transfer request

reqVars == <<rq_site, rq_pc, rq_age, rq_peer, rq_phase>>

(***************************************************************************)
(* State of one filter_ignored_servers(servers, config) call.              *)
(***************************************************************************)
VARIABLES
    flt_pc,             \* "idle", "entry" or "done"
    flt_ignoreids,      \* config.server_config.ignoreids, a string (sequence of chars)
    flt_input,          \* the ids of `servers` at the call, in order
    flt_servers         \* the ids of `servers`: the Vec the function edits in place

filterVars == <<flt_pc, flt_ignoreids, flt_input, flt_servers>>

(***************************************************************************)
(* State of a run: a SpeedTester and the calls made on it (initialize,     *)
(* do_download, do_upload), or the pipeline of the CLI (App::speedtest).   *)
(***************************************************************************)
VARIABLES
    run_path,           \* "library" (calls on a SpeedTester) or "cli" (App::speedtest)
    st_config,          \* self.config: <<>> for None, <<config>> for Some(config)
    st_server,          \* self.server: <<>> for None, <<id>> for Some(server)
    run_op,             \* the function called last
    run_pc,             \* the await the call is at, "ready", "returned" or "hung"
    run_cfg,            \* the local `config` of the call: <<>> or <<config>>
    run_list,           \* the server list handed to select_fastest_server
    run_server,         \* the local `server` of App::speedtest: <<>> or <<id>>
    run_stages,         \* the stages the call has run, in order
    run_failed,         \* the stage of the call that failed, or "none"
    run_result,         \* what the call returned: "none", "ok" or the error
    run_downloaded,     \* the ByteCounter `downloaded`
    run_uploaded,       \* the ByteCounter `uploaded`
    run_in,             \* the two counters as they were when the call began
    run_used,           \* the servers transfers were run against, in order
    n_calls             \* calls made so far

runVars == <<run_path, st_config, st_server, run_op, run_pc, run_cfg, run_list,
             run_server, run_stages, run_failed, run_result, run_downloaded,
             run_uploaded, run_in, run_used, n_calls>>

(***************************************************************************)
(* State of one call of a function without effects: the accessors of a     *)
(* Config, the size computed for a transfer task, the URLs of a            *)
(* SpeedTestUrl.                                                           *)
(***************************************************************************)
VARIABLES
    call_fn,            \* "none", "accessors", "task_size" or "urls"
    call_pc,            \* "idle", "entry" or "done"
    call_cfg,           \* the Config of the call: <<>> or <<config>>
    call_kind,          \* the phase of the task: "download", "upload" or "none"
    call_index,         \* the task number i
    call_self,          \* the SpeedTestUrl of the call: <<>> or <<self>>
    call_out            \* what the call returned: <<>> or <<value>>

callVars == <<call_fn, call_pc, call_cfg, call_kind, call_index, call_self, call_out>>

(***************************************************************************)
(* State of the terminal application: the App, the event channel of its    *)
(* EventHandler, and the task spawn_speed_test spawns.                     *)
(***************************************************************************)
VARIABLES
    app_pc,             \* "idle", "new", "loop" (in App::run), "exited" or "panicked"
    running,            \* self.running
    app_shutdown,       \* the value of the watch channel of shutdown_tx
    events,             \* the mpsc channel of the EventHandler: the events not yet received
    speedtest_pc,       \* the await the spawned task is at, "unspawned", "spawned",
                        \* "returned", "hung" or "stopped"
    sent,               \* the (state, status) pairs App::speedtest has sent, in order
    status,             \* the status() of the five Progress fields
    downloaded,         \* self.downloaded, the AtomicU64
    uploaded,           \* self.uploaded, the AtomicU64
    last_download_time, \* <<>> for None, <<"Instant">> for Some(instant)
    last_download_count,\* <<>> for None, <<n>> for Some(n)
    last_upload_time,
    last_upload_count

appVars == <<app_pc, running, app_shutdown, events, speedtest_pc, sent, status,
             downloaded, uploaded, last_download_time, last_download_count,
             last_upload_time, last_upload_count>>

\* the variables of the machines other than the latency race and the phases
restVars == <<streamVars, fetchVars, reqVars, filterVars, runVars, callVars, appVars>>

vars == <<selVars, phaseVars, restVars>>

\* no stream is being consumed
IdleStream ==
    /\ zs_pc = "idle"
    /\ zs_size = 0
    /\ zs_remaining = 0
    /\ zs_chunks = <<>>
    /\ zs_counter0 = 0
    /\ zs_counter = 0

\* no fetch is running
IdleFetch ==
    /\ fc_kind = "none"
    /\ fc_threads = 0
    /\ fc_env = <<>>
    /\ fc_pc = "idle"
    /\ fc_idx = 0
    /\ fc_log = <<>>
    /\ fc_result = <<>>

\* no single request is being watched
IdleReq ==
    /\ rq_site = "none"
    /\ rq_pc = "idle"
    /\ rq_age = 0
    /\ rq_peer = 0
    /\ rq_phase = 0

\* no filter call is running
IdleFilter ==
    /\ flt_pc = "idle"
    /\ flt_ignoreids = <<>>
    /\ flt_input = <<>>
    /\ flt_servers = <<>>

\* no run is going on
IdleRun ==
    /\ run_path = "none"
    /\ st_config = <<>>
    /\ st_server = <<>>
    /\ run_op = "none"
    /\ run_pc = "idle"
    /\ run_cfg = <<>>
    /\ run_list = <<>>
    /\ run_server = <<>>
    /\ run_stages = <<>>
    /\ run_failed = "none"
    /\ run_result = "none"
    /\ run_downloaded = 0
    /\ run_uploaded = 0
    /\ run_in = <<0, 0>>
    /\ run_used = <<>>
    /\ n_calls = 0

\* no call is being made
IdleCall ==
    /\ call_fn = "none"
    /\ call_pc = "idle"
    /\ call_cfg = <<>>
    /\ call_kind = "none"
    /\ call_index = 0
    /\ call_self = <<>>
    /\ call_out = <<>>

\* the five states of event::State, in the order App::speedtest goes through them
Stages == <<"FetchConfig", "FetchServers", "RacingServers", "Download", "Upload">>

\* no App exists
IdleApp ==
    /\ app_pc = "idle"
    /\ running = FALSE
    /\ app_shutdown = FALSE
    /\ events = <<>>
    /\ speedtest_pc = "unspawned"
    /\ sent = <<>>
    /\ status = [k \in 1..Len(Stages) |-> "Pending"]
    /\ downloaded = 0
    /\ uploaded = 0
    /\ last_download_time = <<>>
    /\ last_download_count = <<>>
    /\ last_upload_time = <<>>
    /\ last_upload_count = <<>>

\* none of the other machines is running
IdleRest ==
    IdleStream /\ IdleFetch /\ IdleReq /\ IdleFilter /\ IdleRun /\ IdleCall /\ IdleApp

\* a probe task that has not run to its end
ProbeAlive(s) == probe[s].pc \in {"round", "sleep", "send"}

\* number of live Sender handles of the completion channel: the selector's
\* original `tx` and the clone each running probe task owns
Senders == (IF tx_held THEN 1 ELSE 0) + Cardinality({s \in DOMAIN probe : ProbeAlive(s)})

\* shutdown.changed() is ready: the value changed, or the Sender was dropped
ChangedReady == shutdown \/ ~shutdown_tx_alive

\* what one probe request can come to: a success with its measured elapsed
\* time, or a failure (transport error, timeout, unreadable body)
RoundOutcomes(s) ==
    {[ok |-> FALSE, elapsed |-> 0]} \cup
    (IF s \in dead THEN {} ELSE {[ok |-> TRUE, elapsed |-> e] : e \in ElapsedChoices})

\* a variant of get_server_delay whose failed round counts timeout once
get_server_delay_single(o) == IF o.ok THEN o.elapsed ELSE Timeout

\* get_server_delay: elapsed on success, timeout * 2 otherwise
get_server_delay(o) == IF o.ok THEN o.elapsed ELSE Timeout * 2

\* server_delays.sort_by(|a, b| a.1.cmp(&b.1)): a stable sort by delay
RECURSIVE InsertByDelay(_, _)
InsertByDelay(sorted, x) ==
    IF sorted = <<>> THEN <<x>>
    ELSE IF x[2] < Head(sorted)[2] THEN <<x>> \o sorted
    ELSE <<Head(sorted)>> \o InsertByDelay(Tail(sorted), x)

RECURSIVE SortByDelay(_)
SortByDelay(sq) ==
    IF sq = <<>> THEN <<>>
    ELSE InsertByDelay(SortByDelay(SubSeq(sq, 1, Len(sq) - 1)), sq[Len(sq)])

\* a probe task as spawned: round index i, the local `delay`, whether a request
\* is in flight, requests issued, rounds that failed, and what the select!
\* dropped when the shutdown branch won
NewProbe == [pc |-> "round", i |-> 0, delay |-> 0, req |-> FALSE,
             issued |-> 0, fails |-> 0, dropped |-> "none"]

\* no download or upload is running
IdlePhase ==
    /\ kind = "none"
    /\ config = <<>>
    /\ ph_pc = "idle"
    /\ elapsed = 0
    /\ next_index = 0
    /\ inflight = EmptyBag
    /\ starts = <<>>
    /\ ndone = 0
    /\ nfailed = 0
    /\ ndropped = 0
    /\ task_size = <<>>
    /\ counter = 0
    /\ ph_shutdown = FALSE
    /\ conns = EmptyBag
    /\ counted = 0

InitSelect ==
    /\ IdlePhase
    /\ IdleRest
    /\ \E n \in 0..MaxServers : servers = 1..n
    /\ dead \in SUBSET servers
    /\ sel_pc = "entry"
    /\ chan = <<>>
    /\ chan_cap = 0
    /\ tx_held = FALSE
    /\ rx_alive = FALSE
    /\ shutdown = FALSE
    /\ shutdown_tx_alive = FALSE
    /\ probe = <<>>
    /\ server_delays = <<>>
    /\ first_report = <<>>
    /\ nrecv = 0
    /\ result = 0

\* a variant of SelectStart without the servers.is_empty() check
SelectStartNoCheck ==
    /\ sel_pc = "entry"
    /\ sel_pc' = "recv_first"
    /\ chan_cap' = Cardinality(servers)
    /\ tx_held' = TRUE
    /\ rx_alive' = TRUE
    /\ shutdown_tx_alive' = TRUE
    /\ probe' = [s \in servers |-> NewProbe]
    /\ UNCHANGED <<servers, dead, chan, shutdown, server_delays, first_report,
                   nrecv, result>>
    /\ UNCHANGED <<phaseVars, restVars>>

\* a variant of SelectStart whose completion channel holds one report
SelectStartUnitChannel ==
    /\ sel_pc = "entry"
    /\ IF servers = {}
       THEN /\ sel_pc' = "err_no_servers"
            /\ UNCHANGED <<chan_cap, tx_held, rx_alive, shutdown_tx_alive, probe>>
       ELSE /\ sel_pc' = "recv_first"
            /\ chan_cap' = 1
            /\ tx_held' = TRUE
            /\ rx_alive' = TRUE
            /\ shutdown_tx_alive' = TRUE
            /\ probe' = [s \in servers |-> NewProbe]
    /\ UNCHANGED <<servers, dead, chan, shutdown, server_delays, first_report,
                   nrecv, result>>
    /\ UNCHANGED <<phaseVars, restVars>>

\* select_fastest_server up to its first await: the empty check, the two
\* channels, one spawned probe task per server
SelectStart ==
    /\ sel_pc = "entry"
    /\ IF servers = {}
       THEN /\ sel_pc' = "err_no_servers"
            /\ UNCHANGED <<chan_cap, tx_held, rx_alive, shutdown_tx_alive, probe>>
       ELSE /\ sel_pc' = "recv_first"
            /\ chan_cap' = Cardinality(servers)
            /\ tx_held' = TRUE
            /\ rx_alive' = TRUE
            /\ shutdown_tx_alive' = TRUE
            /\ probe' = [s \in servers |-> NewProbe]
    /\ UNCHANGED <<servers, dead, chan, shutdown, server_delays, first_report,
                   nrecv, result>>
    /\ UNCHANGED <<phaseVars, restVars>>

\* the function returns: its locals tx, rx, shutdown_tx are dropped
SelectorReturn(pc, res) ==
    /\ sel_pc' = pc
    /\ result' = res
    /\ tx_held' = FALSE
    /\ rx_alive' = FALSE
    /\ shutdown_tx_alive' = FALSE
    /\ chan' = <<>>

\* a variant of EarlyWinnerReturn that returns without shutdown_tx.send(true)
EarlyWinnerReturnNoBroadcast(rep) ==
    /\ UNCHANGED shutdown
    /\ SelectorReturn("ok", rep[1])
    /\ UNCHANGED server_delays

\* if delay < timeout * 2 { _ = shutdown_tx.send(true); return Ok(server); }
EarlyWinnerReturn(rep) ==
    /\ shutdown' = TRUE
    /\ SelectorReturn("ok", rep[1])
    /\ UNCHANGED server_delays

\* a variant of SelRecvFirst that returns the first report whatever its delay
SelRecvFirstAny ==
    /\ sel_pc = "recv_first"
    /\ IF chan /= <<>>
       THEN /\ first_report' = <<Head(chan)>>
            /\ nrecv' = nrecv + 1
            /\ EarlyWinnerReturn(Head(chan))
       ELSE /\ Senders = 0
            /\ SelectorReturn("panic", 0)
            /\ UNCHANGED <<first_report, nrecv, shutdown, server_delays>>
    /\ UNCHANGED <<servers, dead, chan_cap, probe>>
    /\ UNCHANGED <<phaseVars, restVars>>

\* let (server, delay) = rx.recv().await.unwrap(); and the early-winner test
SelRecvFirst ==
    /\ sel_pc = "recv_first"
    /\ IF chan /= <<>>
       THEN /\ first_report' = <<Head(chan)>>
            /\ nrecv' = nrecv + 1
            /\ IF Head(chan)[2] < Timeout * 2
               THEN EarlyWinnerReturn(Head(chan))
               ELSE /\ server_delays' = <<Head(chan)>>
                    /\ chan' = Tail(chan)
                    /\ sel_pc' = "drain"
                    /\ UNCHANGED <<shutdown, result, tx_held, rx_alive, shutdown_tx_alive>>
       ELSE \* recv() yields None only once every Sender is gone: unwrap panics
            /\ Senders = 0
            /\ SelectorReturn("panic", 0)
            /\ UNCHANGED <<first_report, nrecv, shutdown, server_delays>>
    /\ UNCHANGED <<servers, dead, chan_cap, probe>>
    /\ UNCHANGED <<phaseVars, restVars>>

\* while let Some(..) = rx.recv().await { push }, then sort and decide
SelRecvLoop ==
    /\ sel_pc = "drain"
    /\ IF chan /= <<>>
       THEN /\ server_delays' = Append(server_delays, Head(chan))
            /\ chan' = Tail(chan)
            /\ nrecv' = nrecv + 1
            /\ UNCHANGED <<sel_pc, result, tx_held, rx_alive, shutdown_tx_alive>>
       ELSE \* recv() yields None only once every Sender is gone
            /\ Senders = 0
            /\ LET sorted == SortByDelay(server_delays) IN
               /\ server_delays' = sorted
               /\ IF sorted[1][2] < Timeout * 2 * compare_times
                  THEN SelectorReturn("ok", sorted[1][1])
                  ELSE SelectorReturn("err_all_failed", 0)
            /\ UNCHANGED nrecv
    /\ UNCHANGED <<servers, dead, chan_cap, shutdown, probe, first_report>>
    /\ UNCHANGED <<phaseVars, restVars>>

\* first poll of a round's tokio::select! (branches polled in random order)
ProbeBeginRound(s) ==
    /\ s \in DOMAIN probe
    /\ probe[s].pc = "round"
    /\ ~probe[s].req
    /\ IF ChangedReady
       THEN \E started \in BOOLEAN :
                probe' = [probe EXCEPT ![s].pc = "cancelled",
                                       ![s].issued = @ + (IF started THEN 1 ELSE 0),
                                       ![s].dropped = IF started THEN "first_poll"
                                                                 ELSE "none"]
       ELSE probe' = [probe EXCEPT ![s].req = TRUE, ![s].issued = @ + 1]
    /\ UNCHANGED <<servers, dead, sel_pc, chan, chan_cap, tx_held, rx_alive, shutdown,
                   shutdown_tx_alive, server_delays, first_report, nrecv, result>>
    /\ UNCHANGED <<phaseVars, restVars>>

\* the request of the round completes: delay += current_delay
ProbeRoundDone(s) ==
    /\ s \in DOMAIN probe
    /\ probe[s].pc = "round"
    /\ probe[s].req
    /\ \E o \in RoundOutcomes(s) :
          probe' = [probe EXCEPT ![s].delay = @ + get_server_delay(o),
                                 ![s].fails = @ + (IF o.ok THEN 0 ELSE 1),
                                 ![s].req = FALSE,
                                 ![s].pc = IF probe[s].i < compare_times - 1
                                           THEN "sleep" ELSE "send"]
    /\ UNCHANGED <<servers, dead, sel_pc, chan, chan_cap, tx_held, rx_alive, shutdown,
                   shutdown_tx_alive, server_delays, first_report, nrecv, result>>
    /\ UNCHANGED <<phaseVars, restVars>>

\* a variant of ProbeShutdown that leaves the loop instead of the task, and
\* so goes on to send its report
ProbeShutdownBreaks(s) ==
    /\ s \in DOMAIN probe
    /\ probe[s].pc = "round"
    /\ probe[s].req
    /\ ChangedReady
    /\ probe' = [probe EXCEPT ![s].pc = "send", ![s].req = FALSE,
                              ![s].dropped = "in_flight"]
    /\ UNCHANGED <<servers, dead, sel_pc, chan, chan_cap, tx_held, rx_alive, shutdown,
                   shutdown_tx_alive, server_delays, first_report, nrecv, result>>
    /\ UNCHANGED <<phaseVars, restVars>>

\* shutdown.changed() wins the select!: the task returns, the request future
\* it was racing against is dropped
ProbeShutdown(s) ==
    /\ s \in DOMAIN probe
    /\ probe[s].pc = "round"
    /\ probe[s].req
    /\ ChangedReady
    /\ probe' = [probe EXCEPT ![s].pc = "cancelled", ![s].req = FALSE,
                              ![s].dropped = "in_flight"]
    /\ UNCHANGED <<servers, dead, sel_pc, chan, chan_cap, tx_held, rx_alive, shutdown,
                   shutdown_tx_alive, server_delays, first_report, nrecv, result>>
    /\ UNCHANGED <<phaseVars, restVars>>

\* tokio::time::sleep(interval) between rounds ends
ProbeSleepDone(s) ==
    /\ s \in DOMAIN probe
    /\ probe[s].pc = "sleep"
    /\ probe' = [probe EXCEPT ![s].pc = "round", ![s].i = @ + 1]
    /\ UNCHANGED <<servers, dead, sel_pc, chan, chan_cap, tx_held, rx_alive, shutdown,
                   shutdown_tx_alive, server_delays, first_report, nrecv, result>>
    /\ UNCHANGED <<phaseVars, restVars>>

\* a variant of ProbeSend that keeps waiting for the Receiver once it is gone
ProbeSendWaits(s) ==
    /\ s \in DOMAIN probe
    /\ probe[s].pc = "send"
    /\ rx_alive
    /\ Len(chan) < chan_cap
    /\ chan' = Append(chan, <<s, probe[s].delay>>)
    /\ probe' = [probe EXCEPT ![s].pc = "reported"]
    /\ UNCHANGED <<servers, dead, sel_pc, chan_cap, tx_held, rx_alive, shutdown,
                   shutdown_tx_alive, server_delays, first_report, nrecv, result>>
    /\ UNCHANGED <<phaseVars, restVars>>

\* _ = tx.send((server, delay)).await
ProbeSend(s) ==
    /\ s \in DOMAIN probe
    /\ probe[s].pc = "send"
    /\ IF ~rx_alive
       THEN /\ probe' = [probe EXCEPT ![s].pc = "ended"]
            /\ UNCHANGED chan
       ELSE /\ Len(chan) < chan_cap
            /\ chan' = Append(chan, <<s, probe[s].delay>>)
            /\ probe' = [probe EXCEPT ![s].pc = "reported"]
    /\ UNCHANGED <<servers, dead, sel_pc, chan_cap, tx_held, rx_alive, shutdown,
                   shutdown_tx_alive, server_delays, first_report, nrecv, result>>
    /\ UNCHANGED <<phaseVars, restVars>>

ProbeStep(s) ==
    \/ ProbeBeginRound(s)
    \/ ProbeRoundDone(s)
    \/ ProbeShutdown(s)
    \/ ProbeSleepDone(s)
    \/ ProbeSend(s)

SelectorStep == SelectStart \/ SelRecvFirst \/ SelRecvLoop

NextSelect ==
    \/ SelectStart
    \/ SelRecvFirst
    \/ SelRecvLoop
    \/ \E s \in 1..MaxServers : ProbeBeginRound(s)
    \/ \E s \in 1..MaxServers : ProbeRoundDone(s)
    \/ \E s \in 1..MaxServers : ProbeShutdown(s)
    \/ \E s \in 1..MaxServers : ProbeSleepDone(s)
    \/ \E s \in 1..MaxServers : ProbeSend(s)

\* the runtime schedules every task that can run
FairSelect ==
    /\ WF_vars(SelectorStep)
    /\ \A s \in 1..MaxServers : WF_vars(ProbeStep(s))

SpecSelect == InitSelect /\ [][NextSelect]_vars /\ FairSelect

(***************************************************************************)
(* Config accessors (speedtest-rs-core/src/model.rs).                      *)
(***************************************************************************)
\* DefaultSequence::Download.sequence()
DownloadSequence == <<350, 500, 750, 1000, 1500, 2000, 2500, 3000, 3500, 4000>>

\* DefaultSequence::Upload.sequence()
UploadSequence == <<32 * 1024, 64 * 1024, 128 * 1024, 256 * 1024, 512 * 1024,
                    1024 * 1024, 7 * 1024 * 1024>>

download_size_sequence(cfg) == DownloadSequence

\* `x as usize` of an f32: a negative value gives 0, the fraction is cut off
as_usize(x) == IF x < 0 THEN 0 ELSE x \div HalvesPerUnit

\* a variant of upload_size_sequence that drains 0..ratio
upload_size_sequence_drain_ratio(cfg) ==
    LET seq == UploadSequence
        ratio == as_usize(cfg.upload.ratio)
    IN  IF ratio > 0 /\ ratio < Len(seq) THEN SubSeq(seq, ratio + 1, Len(seq)) ELSE seq

\* a variant of upload_size_sequence that also drains when ratio = seq.len()
upload_size_sequence_upto_len(cfg) ==
    LET seq == UploadSequence
        ratio == as_usize(cfg.upload.ratio)
    IN  IF ratio > 0 /\ ratio <= Len(seq) THEN SubSeq(seq, ratio, Len(seq)) ELSE seq

\* seq.drain(0..ratio - 1) when ratio > 0 && ratio < seq.len()
upload_size_sequence(cfg) ==
    LET seq == UploadSequence
        ratio == as_usize(cfg.upload.ratio)
    IN  IF ratio > 0 /\ ratio < Len(seq) THEN SubSeq(seq, ratio, Len(seq)) ELSE seq

\* a variant of threads without the doubling
threads_plain(cfg) == cfg.server_config.threadcount

threads(cfg) == cfg.server_config.threadcount * 2

download_threads(cfg) == cfg.server_config.threadcount * 2

upload_threads(cfg) == cfg.upload.threads

download_count_per_url(cfg) == cfg.download.threadsperurl

max_upload_count(cfg) == cfg.upload.maxchunkcount

max_download_duration(cfg) == cfg.download.testlength

max_upload_duration(cfg) == cfg.upload.testlength

(***************************************************************************)
(* A download or upload phase.                                             *)
(***************************************************************************)
\* let seq = config.download_size_sequence() / config.upload_size_sequence()
PhaseSeq ==
    IF kind = "download" THEN download_size_sequence(config) ELSE upload_size_sequence(config)

\* N: max_download_count / max_upload_count
PhaseCount ==
    IF kind = "download"
    THEN download_count_per_url(config) * Len(download_size_sequence(config))
    ELSE max_upload_count(config)

\* C: the limit handed to for_each_concurrent
PhaseLimit ==
    IF kind = "download" THEN download_threads(config) ELSE upload_threads(config)

\* D: the duration of the phase's sleep
PhaseDuration ==
    IF kind = "download" THEN max_download_duration(config) ELSE max_upload_duration(config)

\* a variant of SizeAt that stays at the last size once the sequence is used up
SizeAtClamped(seq, i) == seq[IF i < Len(seq) THEN i + 1 ELSE Len(seq)]

\* seq[i % seq.len()]  (seq is indexed from 0 in the code)
SizeAt(seq, i) == seq[(i % Len(seq)) + 1]

\* let size = seq[i % seq.len()]
TaskSize(i) == SizeAt(PhaseSeq, i)

InFlight == BagCardinality(inflight)

Put(b, t) == b (+) SetToBag({t})

Take(b, t) == b (-) SetToBag({t})

\* a variant of chunk_size that always takes the whole of UPLOAD_CHUNK
chunk_size_whole(remaining) == UPLOAD_CHUNK_LEN

\* let chunk_size = remaining.min(UPLOAD_CHUNK.len())
chunk_size(remaining) ==
    IF remaining < UPLOAD_CHUNK_LEN THEN remaining ELSE UPLOAD_CHUNK_LEN

\* the future one item of the stream is mapped to: single_download awaiting
\* its response, or single_upload sending a body of `size` zero bytes
NewTask(i) ==
    IF kind = "download"
    THEN [pc |-> "connect", body |-> 0, remaining |-> 0]
    ELSE [pc |-> "send", body |-> TaskSize(i), remaining |-> TaskSize(i)]

\* for_each_concurrent pulls the next item: no limit (None) or a free slot.
\* A limit of 0 is no limit: the limit is kept as Option<NonZeroUsize>.
CanStart ==
    /\ next_index < PhaseCount
    /\ (PhaseLimit = 0 \/ InFlight < PhaseLimit)

DownloadConfigs ==
    {[server_config |-> [threadcount |-> tc],
      download |-> [testlength |-> tl, threadsperurl |-> tpu],
      upload |-> [testlength |-> 0, ratio |-> 0, threads |-> 0, maxchunkcount |-> 0]] :
        tc \in 0..MaxThreadCount, tl \in 0..MaxTestLength, tpu \in 0..MaxThreadsPerUrl}

UploadConfigs ==
    {[server_config |-> [threadcount |-> 0],
      download |-> [testlength |-> 0, threadsperurl |-> 0],
      upload |-> [testlength |-> tl, ratio |-> r, threads |-> th, maxchunkcount |-> mc]] :
        tl \in 0..MaxTestLength, r \in RatioChoices, th \in 0..MaxUploadThreads,
        mc \in 0..MaxChunkCount}

\* no latency race is running
IdleSelect ==
    /\ servers = {}
    /\ dead = {}
    /\ sel_pc = "idle"
    /\ chan = <<>>
    /\ chan_cap = 0
    /\ tx_held = FALSE
    /\ rx_alive = FALSE
    /\ shutdown = FALSE
    /\ shutdown_tx_alive = FALSE
    /\ probe = <<>>
    /\ server_delays = <<>>
    /\ first_report = <<>>
    /\ nrecv = 0
    /\ result = 0

InitPhase ==
    /\ IdleSelect
    /\ IdleRest
    /\ kind \in {"download", "upload"}
    /\ config \in (IF kind = "download" THEN DownloadConfigs ELSE UploadConfigs)
    /\ ph_pc = "entry"
    /\ elapsed = 0
    /\ next_index = 0
    /\ inflight = EmptyBag
    /\ starts = <<>>
    /\ ndone = 0
    /\ nfailed = 0
    /\ ndropped = 0
    /\ task_size = <<>>
    /\ counter = 0
    /\ ph_shutdown = FALSE
    /\ conns = EmptyBag
    /\ counted = 0

\* download() / upload() up to the select!: the sequence, the count, the
\* watch channel, the (not yet polled) tasks future and the sleep
PhaseStart ==
    /\ ph_pc = "entry"
    /\ ph_pc' = "select"
    /\ starts' = [i \in 0..(PhaseCount - 1) |-> 0]
    /\ task_size' = [i \in 0..(PhaseCount - 1) |-> 0]
    /\ UNCHANGED <<kind, config, elapsed, next_index, inflight, ndone, nfailed,
                   ndropped, counter, ph_shutdown>>
    /\ UNCHANGED <<conns, counted, selVars, restVars>>

\* the clock of the phase advances
Tick ==
    /\ ph_pc \in {"select", "polling"}
    /\ elapsed < PhaseDuration
    /\ elapsed' = elapsed + 1
    /\ UNCHANGED <<kind, config, ph_pc, next_index, inflight, starts, ndone, nfailed,
                   ndropped, task_size, counter, ph_shutdown>>
    /\ UNCHANGED <<conns, counted, selVars, restVars>>

\* a variant of PollTimer in which the timer branch waits for the tasks in flight
PollTimerWaitsForTasks ==
    /\ ph_pc = "select"
    /\ IF elapsed >= PhaseDuration /\ inflight = EmptyBag
       THEN /\ ph_shutdown' = TRUE
            /\ ph_pc' = "timeout"
            /\ ndropped' = InFlight
            /\ inflight' = EmptyBag
       ELSE /\ ph_pc' = "polling"
            /\ UNCHANGED <<ph_shutdown, ndropped, inflight>>
    /\ UNCHANGED <<kind, config, elapsed, next_index, starts, ndone, nfailed,
                   task_size, counter>>
    /\ UNCHANGED <<conns, counted, selVars, restVars>>

\* a variant of PollTimer that sends shutdown but keeps the tasks running
PollTimerKeepTasks ==
    /\ ph_pc = "select"
    /\ IF elapsed >= PhaseDuration
       THEN /\ ph_shutdown' = TRUE
            /\ ph_pc' = "timeout"
            /\ UNCHANGED <<ndropped, inflight>>
       ELSE /\ ph_pc' = "polling"
            /\ UNCHANGED <<ph_shutdown, ndropped, inflight>>
    /\ UNCHANGED <<kind, config, elapsed, next_index, starts, ndone, nfailed,
                   task_size, counter>>
    /\ UNCHANGED <<conns, counted, selVars, restVars>>

\* a variant of PollTimer without `biased;`: the tasks may be polled first
PollTimerUnbiased ==
    /\ ph_pc = "select"
    /\ \/ /\ elapsed >= PhaseDuration
          /\ ph_shutdown' = TRUE
          /\ ph_pc' = "timeout"
          /\ ndropped' = InFlight
          /\ inflight' = EmptyBag
       \/ /\ ph_pc' = "polling"
          /\ UNCHANGED <<ph_shutdown, ndropped, inflight>>
    /\ UNCHANGED <<kind, config, elapsed, next_index, starts, ndone, nfailed,
                   task_size, counter>>
    /\ UNCHANGED <<conns, counted, selVars, restVars>>

\* the upload bodies of the tasks in flight that are not yet exhausted.  The
\* body is part of the request: once send() has handed the request to a
\* connection, the body stream is polled by the connection task that the
\* HTTP client spawned, not by the transfer task.
BodiesInFlight ==
    LET held == {t \in BagToSet(inflight) : t.pc = "send" /\ t.remaining > 0}
    IN  [t \in held |-> inflight[t]]

\* one poll of the select! begins.  `biased;`: the sleep is polled first; when
\* it has elapsed, shutdown_tx.send(true) and the function returns, which
\* drops the tasks future with every task still in it: of the bodies not yet
\* exhausted, those already handed to a connection stay with its connection
\* task.  Otherwise the tasks are polled.
PollTimer ==
    /\ ph_pc = "select"
    /\ IF elapsed >= PhaseDuration
       THEN /\ ph_shutdown' = TRUE
            /\ ph_pc' = "timeout"
            /\ ndropped' = InFlight
            /\ inflight' = EmptyBag
            /\ \E held \in SubBag(BodiesInFlight) : conns' = held
       ELSE /\ ph_pc' = "polling"
            /\ UNCHANGED <<ph_shutdown, ndropped, inflight, conns>>
    /\ UNCHANGED <<kind, config, elapsed, next_index, starts, ndone, nfailed,
                   task_size, counter, counted>>
    /\ UNCHANGED <<selVars, restVars>>

\* for_each_concurrent takes item i = next_index and runs its future
StartTask ==
    /\ ph_pc = "polling"
    /\ CanStart
    /\ inflight' = Put(inflight, NewTask(next_index))
    /\ starts' = [starts EXCEPT ![next_index] = @ + 1]
    /\ task_size' = [task_size EXCEPT ![next_index] = TaskSize(next_index)]
    /\ next_index' = next_index + 1
    /\ UNCHANGED <<kind, config, ph_pc, elapsed, ndone, nfailed, ndropped, counter,
                   ph_shutdown>>
    /\ UNCHANGED <<conns, counted, selVars, restVars>>

\* a task's future completes: for_each_concurrent drops it
TaskEnds(t, failed) ==
    /\ inflight' = Take(inflight, t)
    /\ ndone' = ndone + (IF failed THEN 0 ELSE 1)
    /\ nfailed' = nfailed + (IF failed THEN 1 ELSE 0)

\* single_download: client.get(&url).send().await yields Ok(resp)
ConnectOk ==
    /\ ph_pc = "polling"
    /\ \E t \in BagToSet(inflight) :
          /\ t.pc = "connect"
          /\ inflight' = Put(Take(inflight, t), [t EXCEPT !.pc = "stream"])
    /\ UNCHANGED <<kind, config, ph_pc, elapsed, next_index, starts, ndone, nfailed,
                   ndropped, task_size, counter, ph_shutdown>>
    /\ UNCHANGED <<conns, counted, selVars, restVars>>

\* a variant of ConnectFail that issues the request again
ConnectFailRetry ==
    /\ ph_pc = "polling"
    /\ \E t \in BagToSet(inflight) :
          /\ t.pc = "connect"
          /\ \E i \in DOMAIN starts :
                /\ starts[i] > 0
                /\ starts' = [starts EXCEPT ![i] = @ + 1]
    /\ UNCHANGED <<kind, config, ph_pc, elapsed, next_index, inflight, ndone, nfailed,
                   ndropped, task_size, counter, ph_shutdown>>
    /\ UNCHANGED <<conns, counted, selVars, restVars>>

\* single_download: send() yields Err(e): the task returns
ConnectFail ==
    /\ ph_pc = "polling"
    /\ \E t \in BagToSet(inflight) :
          /\ t.pc = "connect"
          /\ TaskEnds(t, TRUE)
    /\ UNCHANGED <<kind, config, ph_pc, elapsed, next_index, starts, ndropped,
                   task_size, counter, ph_shutdown>>
    /\ UNCHANGED <<conns, counted, selVars, restVars>>

\* a variant of DownloadChunk that stores chunk.len() instead of adding it
DownloadChunkStore ==
    /\ ph_pc = "polling"
    /\ \E t \in BagToSet(inflight) :
          /\ t.pc = "stream"
          /\ IF ph_shutdown
             THEN TaskEnds(t, FALSE) /\ UNCHANGED <<counter, counted>>
             ELSE /\ \E len \in ChunkLens :
                        /\ counter + len <= MaxBytes
                        /\ counter' = len
                        /\ counted' = counted + len
                  /\ UNCHANGED <<inflight, ndone, nfailed>>
    /\ UNCHANGED <<kind, config, ph_pc, elapsed, next_index, starts, ndropped,
                   task_size, ph_shutdown>>
    /\ UNCHANGED <<conns, selVars, restVars>>

\* a variant of DownloadChunk whose add is a load followed by a store: the
\* value loaded may be one that another task has added to since
DownloadChunkLostUpdate ==
    /\ ph_pc = "polling"
    /\ \E t \in BagToSet(inflight) :
          /\ t.pc = "stream"
          /\ IF ph_shutdown
             THEN TaskEnds(t, FALSE) /\ UNCHANGED <<counter, counted>>
             ELSE /\ \E len \in ChunkLens, seen \in 0..counter :
                        /\ counter + len <= MaxBytes
                        /\ counter' = seen + len
                        /\ counted' = counted + len
                  /\ UNCHANGED <<inflight, ndone, nfailed>>
    /\ UNCHANGED <<kind, config, ph_pc, elapsed, next_index, starts, ndropped,
                   task_size, ph_shutdown>>
    /\ UNCHANGED <<conns, selVars, restVars>>

\* single_download: the biased select! sees shutdown.changed() first, else
\* resp.chunk() yields Ok(Some(chunk)): downloaded.fetch_add(chunk.len())
DownloadChunk ==
    /\ ph_pc = "polling"
    /\ \E t \in BagToSet(inflight) :
          /\ t.pc = "stream"
          /\ IF ph_shutdown
             THEN TaskEnds(t, FALSE) /\ UNCHANGED <<counter, counted>>
             ELSE /\ \E len \in ChunkLens :
                        /\ counter + len <= MaxBytes
                        /\ counter' = counter + len
                        /\ counted' = counted + len
                  /\ UNCHANGED <<inflight, ndone, nfailed>>
    /\ UNCHANGED <<kind, config, ph_pc, elapsed, next_index, starts, ndropped,
                   task_size, ph_shutdown>>
    /\ UNCHANGED <<conns, selVars, restVars>>

\* single_download: resp.chunk() yields Ok(None) (failed = FALSE) or Err
\* (failed = TRUE): the while-let loop ends and the task with it
StreamEnd ==
    /\ ph_pc = "polling"
    /\ \E t \in BagToSet(inflight) :
          /\ t.pc = "stream"
          /\ \E failed \in BOOLEAN : TaskEnds(t, IF ph_shutdown THEN FALSE ELSE failed)
    /\ UNCHANGED <<kind, config, ph_pc, elapsed, next_index, starts, ndropped,
                   task_size, counter, ph_shutdown>>
    /\ UNCHANGED <<conns, counted, selVars, restVars>>

\* single_upload: the biased select! sees shutdown.changed() first, else the
\* request pulls the next chunk of create_zero_stream(size, uploaded):
\* remaining.min(UPLOAD_CHUNK.len()) bytes, counted by inspect_ok
BodyChunk ==
    /\ ph_pc = "polling"
    /\ \E t \in BagToSet(inflight) :
          /\ t.pc = "send"
          /\ t.remaining > 0
          /\ IF ph_shutdown
             THEN TaskEnds(t, FALSE) /\ UNCHANGED <<counter, counted>>
             ELSE /\ counter' = counter + chunk_size(t.remaining)
                  /\ counted' = counted + chunk_size(t.remaining)
                  /\ inflight' = Put(Take(inflight, t),
                                     [t EXCEPT !.remaining = @ - chunk_size(t.remaining)])
                  /\ UNCHANGED <<ndone, nfailed>>
    /\ UNCHANGED <<kind, config, ph_pc, elapsed, next_index, starts, ndropped,
                   task_size, ph_shutdown>>
    /\ UNCHANGED <<conns, selVars, restVars>>

\* single_upload: send() completes, with a response (failed = FALSE) or an
\* error (failed = TRUE); either way the task ends
UploadEnd ==
    /\ ph_pc = "polling"
    /\ \E t \in BagToSet(inflight) :
          /\ t.pc = "send"
          /\ \E failed \in BOOLEAN : TaskEnds(t, IF ph_shutdown THEN FALSE ELSE failed)
    /\ UNCHANGED <<kind, config, ph_pc, elapsed, next_index, starts, ndropped,
                   task_size, counter, ph_shutdown>>
    /\ UNCHANGED <<conns, counted, selVars, restVars>>

\* the poll of the tasks future returns Pending: nothing more can start and
\* the tasks in flight wait for the network
PollEnd ==
    /\ ph_pc = "polling"
    /\ ~CanStart
    /\ inflight /= EmptyBag
    /\ ph_pc' = "select"
    /\ UNCHANGED <<kind, config, elapsed, next_index, inflight, starts, ndone, nfailed,
                   ndropped, task_size, counter, ph_shutdown>>
    /\ UNCHANGED <<conns, counted, selVars, restVars>>

\* the tasks future is Ready: the stream is exhausted and no task is left
TasksComplete ==
    /\ ph_pc = "polling"
    /\ next_index = PhaseCount
    /\ inflight = EmptyBag
    /\ ph_pc' = "completed"
    /\ UNCHANGED <<kind, config, elapsed, next_index, inflight, starts, ndone, nfailed,
                   ndropped, task_size, counter, ph_shutdown>>
    /\ UNCHANGED <<conns, counted, selVars, restVars>>

\* a connection task that still holds the body of a dropped request pulls the
\* next chunk of create_zero_stream before it finds the request cancelled:
\* inspect_ok runs uploaded.fetch_add(chunk.len())
LateBodyChunk ==
    /\ \E b \in BagToSet(conns) :
          /\ counter' = counter + chunk_size(b.remaining)
          /\ counted' = counted + chunk_size(b.remaining)
          /\ conns' = IF b.remaining > chunk_size(b.remaining)
                      THEN Put(Take(conns, b),
                               [b EXCEPT !.remaining = @ - chunk_size(b.remaining)])
                      ELSE Take(conns, b)
    /\ UNCHANGED taskVars
    /\ UNCHANGED <<selVars, restVars>>

\* the connection task finds the request cancelled and drops the body
ConnectionCloses ==
    /\ \E b \in BagToSet(conns) : conns' = Take(conns, b)
    /\ UNCHANGED <<taskVars, counter, counted>>
    /\ UNCHANGED <<selVars, restVars>>

NextPhase ==
    \/ PhaseStart
    \/ Tick
    \/ PollTimer
    \/ StartTask
    \/ ConnectOk
    \/ ConnectFail
    \/ DownloadChunk
    \/ StreamEnd
    \/ BodyChunk
    \/ UploadEnd
    \/ PollEnd
    \/ TasksComplete
    \/ LateBodyChunk
    \/ ConnectionCloses

\* time passes, and the runtime polls the phase's future whenever it is woken
FairPhase ==
    /\ WF_vars(PhaseStart)
    /\ WF_vars(Tick)
    /\ WF_vars(PollTimer)
    /\ WF_vars(StartTask)
    /\ WF_vars(PollEnd)
    /\ WF_vars(TasksComplete)
    /\ WF_vars(ConnectionCloses)

SpecPhase == InitPhase /\ [][NextPhase]_vars /\ FairPhase

(***************************************************************************)
(* create_zero_stream(size, uploaded), polled to its end by a consumer.    *)
(***************************************************************************)
\* the sizes tried: around every multiple of the chunk length, and the size
\* of test_create_zero_stream
StreamSizes ==
    {n \in {k * UPLOAD_CHUNK_LEN + d : k \in 0..MaxStreamChunks, d \in {-1, 0, 1}} : n >= 0}
        \cup {TestStreamSize}

\* values the counter can hold when the stream is created
CounterStarts == {0, 5}

InitStream ==
    /\ IdleCall
    /\ IdleApp
    /\ IdleSelect
    /\ IdlePhase
    /\ IdleFetch
    /\ IdleReq
    /\ IdleFilter
    /\ IdleRun
    /\ zs_pc = "open"
    /\ zs_size \in StreamSizes
    /\ zs_remaining = zs_size
    /\ zs_chunks = <<>>
    /\ zs_counter0 \in CounterStarts
    /\ zs_counter = zs_counter0

\* a variant of ZeroStreamChunk without the inspect_ok adapter
ZeroStreamChunkNoCount ==
    /\ zs_pc = "open"
    /\ zs_remaining /= 0
    /\ zs_chunks' = Append(zs_chunks, chunk_size(zs_remaining))
    /\ zs_remaining' = zs_remaining - chunk_size(zs_remaining)
    /\ UNCHANGED <<zs_pc, zs_size, zs_counter0, zs_counter>>
    /\ UNCHANGED <<selVars, phaseVars, fetchVars, reqVars, filterVars, runVars, callVars, appVars>>

\* poll_next with remaining /= 0: Some((Ok(chunk), next_state)), and
\* inspect_ok adds chunk.len() to the counter
ZeroStreamChunk ==
    /\ zs_pc = "open"
    /\ zs_remaining /= 0
    /\ zs_chunks' = Append(zs_chunks, chunk_size(zs_remaining))
    /\ zs_remaining' = zs_remaining - chunk_size(zs_remaining)
    /\ zs_counter' = zs_counter + chunk_size(zs_remaining)
    /\ UNCHANGED <<zs_pc, zs_size, zs_counter0>>
    /\ UNCHANGED <<selVars, phaseVars, fetchVars, reqVars, filterVars, runVars, callVars, appVars>>

\* poll_next with remaining == 0: None, the stream has ended
ZeroStreamEnd ==
    /\ zs_pc = "open"
    /\ zs_remaining = 0
    /\ zs_pc' = "done"
    /\ UNCHANGED <<zs_size, zs_remaining, zs_chunks, zs_counter0, zs_counter>>
    /\ UNCHANGED <<selVars, phaseVars, fetchVars, reqVars, filterVars, runVars, callVars, appVars>>

NextStream ==
    \/ ZeroStreamChunk
    \/ ZeroStreamEnd

\* the consumer polls the stream until it ends
FairStream == WF_vars(NextStream)

SpecStream == InitStream /\ [][NextStream]_vars /\ FairStream

(***************************************************************************)
(* fetch_config / fetch_servers over the candidate URLs of SpeedTestUrl     *)
(* (speedtest-rs-core/src/urls.rs).                                        *)
(***************************************************************************)
\* SpeedTestUrl::default(): the tester never sets use_tls
use_tls == FALSE

\* SpeedTestHost::all() and SpeedTestHost::host
HostsAll == <<"www.speedtest.net", "c.speedtest.net">>

\* SpeedTestPath::servers() and SpeedTestPath::path
PathsServers == <<"/speedtest-servers.php", "/speedtest-servers-static.php">>

PathConfig == "/speedtest-config.php"

\* self.urls of a SpeedTester, then .threads(n)
TesterUrls(n) == [use_tls |-> use_tls, threads |-> n]

Scheme(self) == IF self.use_tls THEN "https" ELSE "http"

\* format!("{}://{}{}", ..) and format!("{}://{}{}?threads={}", ..): a URL is
\* the sequence of the pieces the format string puts together
Url(scheme, host, path) == <<scheme, "://", host, path>>

UrlThreads(scheme, host, path, n) == <<scheme, "://", host, path, "?threads=", n>>

\* SpeedTestUrl::config_urls
config_urls(self) ==
    [h \in 1..Len(HostsAll) |-> Url(Scheme(self), HostsAll[h], PathConfig)]

\* a variant of server_urls with the paths outermost
server_urls_path_major(self) ==
    [k \in 1..(Len(HostsAll) * Len(PathsServers)) |->
        LET host == HostsAll[((k - 1) % Len(HostsAll)) + 1]
            path == PathsServers[((k - 1) \div Len(HostsAll)) + 1]
        IN  IF self.threads > 0
            THEN UrlThreads(Scheme(self), host, path, self.threads)
            ELSE Url(Scheme(self), host, path)]

\* SpeedTestUrl::server_urls: hosts outermost (flat_map), "?threads=N" when
\* self.threads > 0
server_urls(self) ==
    [k \in 1..(Len(HostsAll) * Len(PathsServers)) |->
        LET host == HostsAll[((k - 1) \div Len(PathsServers)) + 1]
            path == PathsServers[((k - 1) % Len(PathsServers)) + 1]
        IN  IF self.threads > 0
            THEN UrlThreads(Scheme(self), host, path, self.threads)
            ELSE Url(Scheme(self), host, path)]

\* the candidate URLs of the running fetch
FetchUrls == IF fc_kind = "config" THEN config_urls(TesterUrls(0))
                                   ELSE server_urls(TesterUrls(fc_threads))

\* what a GET of a URL can come to in get_xml: a success status with a body
\* that deserializes, a transport error or timeout (send / text fails), a
\* non-success status, a body that does not deserialize
GetOutcomes == {"ok", "transport", "status", "parse"}

\* anyhow::bail!("all fetch config failed") / ("all fetch servers failed")
FetchError == IF fc_kind = "config" THEN "all fetch config failed"
                                    ELSE "all fetch servers failed"

InitFetch ==
    /\ IdleCall
    /\ IdleApp
    /\ IdleSelect
    /\ IdlePhase
    /\ IdleStream
    /\ IdleReq
    /\ IdleFilter
    /\ IdleRun
    /\ fc_kind \in {"config", "servers"}
    /\ \E tc \in 0..MaxThreadCount :
          fc_threads = IF fc_kind = "config" THEN 0 ELSE tc * 2
    /\ fc_env \in [1..(IF fc_kind = "config" THEN Len(config_urls(TesterUrls(0)))
                                             ELSE Len(server_urls(TesterUrls(0))))
                        -> GetOutcomes]
    /\ fc_pc = "loop"
    /\ fc_idx = 0
    /\ fc_log = <<>>
    /\ fc_result = <<>>

\* the loop takes the next URL and get_xml sends the GET; when the iterator
\* is exhausted the function bails
FetchSend ==
    /\ fc_pc = "loop"
    /\ IF fc_idx < Len(FetchUrls)
       THEN /\ fc_idx' = fc_idx + 1
            /\ fc_log' = Append(fc_log, FetchUrls[fc_idx + 1])
            /\ fc_pc' = "await"
            /\ UNCHANGED fc_result
       ELSE /\ fc_pc' = "err"
            /\ fc_result' = <<FetchError>>
            /\ UNCHANGED <<fc_idx, fc_log>>
    /\ UNCHANGED <<fc_kind, fc_threads, fc_env>>
    /\ UNCHANGED <<selVars, phaseVars, streamVars, reqVars, filterVars, runVars, callVars, appVars>>

\* a variant of FetchDone that goes on to the next URL after a success
FetchDoneKeepsGoing ==
    /\ fc_pc = "await"
    /\ IF fc_env[fc_idx] = "ok" /\ fc_idx = Len(FetchUrls)
       THEN /\ fc_pc' = "ok"
            /\ fc_result' = <<fc_log[fc_idx]>>
       ELSE /\ fc_pc' = "loop"
            /\ UNCHANGED fc_result
    /\ UNCHANGED <<fc_kind, fc_threads, fc_env, fc_idx, fc_log>>
    /\ UNCHANGED <<selVars, phaseVars, streamVars, reqVars, filterVars, runVars, callVars, appVars>>

\* a variant of FetchDone that bails at the first failed attempt
FetchDoneFailFast ==
    /\ fc_pc = "await"
    /\ IF fc_env[fc_idx] = "ok"
       THEN /\ fc_pc' = "ok"
            /\ fc_result' = <<fc_log[fc_idx]>>
       ELSE /\ fc_pc' = "err"
            /\ fc_result' = <<FetchError>>
    /\ UNCHANGED <<fc_kind, fc_threads, fc_env, fc_idx, fc_log>>
    /\ UNCHANGED <<selVars, phaseVars, streamVars, reqVars, filterVars, runVars, callVars, appVars>>

\* get_xml(url).await returns: Ok(document) is returned at once, Err(e) is
\* logged and the loop goes on
FetchDone ==
    /\ fc_pc = "await"
    /\ IF fc_env[fc_idx] = "ok"
       THEN /\ fc_pc' = "ok"
            /\ fc_result' = <<fc_log[fc_idx]>>
       ELSE /\ fc_pc' = "loop"
            /\ UNCHANGED fc_result
    /\ UNCHANGED <<fc_kind, fc_threads, fc_env, fc_idx, fc_log>>
    /\ UNCHANGED <<selVars, phaseVars, streamVars, reqVars, filterVars, runVars, callVars, appVars>>

NextFetch ==
    \/ FetchSend
    \/ FetchDone

\* the function is polled, and every GET ends (it carries .timeout)
FairFetch == WF_vars(NextFetch)

SpecFetch == InitFetch /\ [][NextFetch]_vars /\ FairFetch

(***************************************************************************)
(* One HTTP call against the clock: what ends a request whose peer is      *)
(* slow or silent.                                                         *)
(***************************************************************************)
RequestSites == {"config", "servers", "probe", "download", "upload"}

\* the request is built with .timeout(..): get_xml and get_server_delay do,
\* single_download and single_upload do not (and the Client has none)
HasTimeout(site) == site \in {"config", "servers", "probe"}

\* the request belongs to a transfer task, which its phase drops at D
InPhase(site) == site \in {"download", "upload"}

InitReq ==
    /\ IdleCall
    /\ IdleApp
    /\ IdleSelect
    /\ IdlePhase
    /\ IdleStream
    /\ IdleFetch
    /\ IdleFilter
    /\ IdleRun
    /\ rq_site \in RequestSites
    /\ rq_pc = "pending"
    /\ rq_age = 0
    /\ rq_peer \in (-1)..MaxRequestAge
    /\ rq_phase \in IF InPhase(rq_site) THEN 0..MaxRequestAge ELSE {0}

\* the timeout of the request has run out
TimeoutDue == HasTimeout(rq_site) /\ rq_age >= Timeout

\* the sleep of the owning phase has run out
PhaseDue == InPhase(rq_site) /\ rq_age >= rq_phase

\* a second passes with the request still pending
ReqTick ==
    /\ rq_pc = "pending"
    /\ rq_age < MaxRequestAge
    /\ rq_peer /= rq_age
    /\ ~TimeoutDue
    /\ ~PhaseDue
    /\ rq_age' = rq_age + 1
    /\ UNCHANGED <<rq_site, rq_pc, rq_peer, rq_phase>>
    /\ UNCHANGED <<selVars, phaseVars, streamVars, fetchVars, filterVars, runVars, callVars, appVars>>

\* the peer answers: send().await (and the body read) completes
ReqAnswer ==
    /\ rq_pc = "pending"
    /\ rq_peer = rq_age
    /\ rq_pc' = "answered"
    /\ UNCHANGED <<rq_site, rq_age, rq_peer, rq_phase>>
    /\ UNCHANGED <<selVars, phaseVars, streamVars, fetchVars, filterVars, runVars, callVars, appVars>>

\* the timeout set on the request ends it with an error
ReqTimeout ==
    /\ rq_pc = "pending"
    /\ TimeoutDue
    /\ rq_pc' = "timed_out"
    /\ UNCHANGED <<rq_site, rq_age, rq_peer, rq_phase>>
    /\ UNCHANGED <<selVars, phaseVars, streamVars, fetchVars, filterVars, runVars, callVars, appVars>>

\* download() / upload() returns on its sleep: the task and its request
\* are dropped
ReqPhaseEnd ==
    /\ rq_pc = "pending"
    /\ PhaseDue
    /\ rq_pc' = "dropped"
    /\ UNCHANGED <<rq_site, rq_age, rq_peer, rq_phase>>
    /\ UNCHANGED <<selVars, phaseVars, streamVars, fetchVars, filterVars, runVars, callVars, appVars>>

NextReq ==
    \/ ReqTick
    \/ ReqAnswer
    \/ ReqTimeout
    \/ ReqPhaseEnd

FairReq == WF_vars(NextReq)

SpecReq == InitReq /\ [][NextReq]_vars /\ FairReq

(***************************************************************************)
(* filter_ignored_servers and Config::ignore_servers.  Strings are          *)
(* sequences of characters.                                                *)
(***************************************************************************)
\* the characters of the ignoreids strings tried
IgnoreChars == {"1", "2", ","}

\* the server ids tried (Server.id is any string; one is empty)
ServerIds == {<<>>, <<"1">>, <<"2">>, <<"1", "2">>}

\* all sequences over S of length at most n
SeqsUpTo(S, n) == UNION {[1..k -> S] : k \in 0..n}

\* str.split(','): the pieces between the commas, empty pieces included;
\* a string without a comma is one piece
RECURSIVE SplitComma(_)
SplitComma(str) ==
    IF \A k \in DOMAIN str : str[k] /= ","
    THEN <<str>>
    ELSE LET c == CHOOSE k \in DOMAIN str :
                      str[k] = "," /\ \A j \in 1..(k - 1) : str[j] /= ","
         IN  <<SubSeq(str, 1, c - 1)>> \o SplitComma(SubSeq(str, c + 1, Len(str)))

\* a variant of ignore_servers that takes the whole string as one entry
ignore_servers_unsplit(ignoreids) == <<ignoreids>>

\* Config::ignore_servers: self.server_config.ignoreids.split(',')
ignore_servers(ignoreids) == SplitComma(ignoreids)

\* a variant of filter_ignored_servers that drops a server whose id begins
\* with an ignored id
filter_ignored_servers_by_prefix(srvs, ignoreids) ==
    LET ignore_ids == ignore_servers(ignoreids)
        Keep(id) == \A k \in DOMAIN ignore_ids :
                       \/ Len(ignore_ids[k]) > Len(id)
                       \/ SubSeq(id, 1, Len(ignore_ids[k])) /= ignore_ids[k]
    IN  SelectSeq(srvs, Keep)

\* servers.retain(|s| !ignore_ids.contains(&s.id.as_str()))
filter_ignored_servers(srvs, ignoreids) ==
    LET ignore_ids == ignore_servers(ignoreids)
        Keep(id) == \A k \in DOMAIN ignore_ids : ignore_ids[k] /= id
    IN  SelectSeq(srvs, Keep)

InitFilter ==
    /\ IdleCall
    /\ IdleApp
    /\ IdleSelect
    /\ IdlePhase
    /\ IdleStream
    /\ IdleFetch
    /\ IdleReq
    /\ IdleRun
    /\ flt_pc = "entry"
    /\ flt_ignoreids \in SeqsUpTo(IgnoreChars, MaxIgnoreLen)
    /\ flt_input \in SeqsUpTo(ServerIds, MaxServers)
    /\ flt_servers = flt_input

\* the call: collect the ignore ids, retain the servers not among them
FilterCall ==
    /\ flt_pc = "entry"
    /\ flt_servers' = filter_ignored_servers(flt_servers, flt_ignoreids)
    /\ flt_pc' = "done"
    /\ UNCHANGED <<flt_ignoreids, flt_input>>
    /\ UNCHANGED <<selVars, phaseVars, streamVars, fetchVars, reqVars, runVars, callVars, appVars>>

NextFilter == FilterCall

SpecFilter == InitFilter /\ [][NextFilter]_vars /\ WF_vars(NextFilter)

(***************************************************************************)
(* A run.  The stages are those of SpeedTester::initialize, do_download,   *)
(* do_upload and of App::speedtest (speedtest-rs-cli/src/app/mod.rs); what  *)
(* a stage can come to is taken from the machines above.                   *)
(***************************************************************************)
\* the Config documents a config fetch can return (the field the run reads)
RunConfigs == {[ignoreids |-> i] : i \in {<<>>, <<"1">>, <<"1", ",", "2">>}}

\* the server lists a directory fetch can return, as the servers' ids
RunDirectories == SeqsUpTo({<<"1">>, <<"2">>}, MaxServers)

\* self.config.is_some() && self.server.is_some()
Initialized == st_config /= <<>> /\ st_server /= <<>>

InitRun ==
    /\ IdleCall
    /\ IdleApp
    /\ IdleSelect
    /\ IdlePhase
    /\ IdleStream
    /\ IdleFetch
    /\ IdleReq
    /\ IdleFilter
    /\ run_path \in {"library", "cli"}
    /\ st_config = <<>>
    /\ st_server = <<>>
    /\ run_op = "none"
    /\ run_pc = "ready"
    /\ run_cfg = <<>>
    /\ run_list = <<>>
    /\ run_server = <<>>
    /\ run_stages = <<>>
    /\ run_failed = "none"
    /\ run_result = "none"
    /\ run_downloaded = 0
    /\ run_uploaded = 0
    /\ run_in = <<0, 0>>
    /\ run_used = <<>>
    /\ n_calls = 0

\* a call begins: its locals are fresh
CallBegins(op) ==
    /\ n_calls < MaxCalls
    /\ n_calls' = n_calls + 1
    /\ run_op' = op
    /\ run_cfg' = <<>>
    /\ run_list' = <<>>
    /\ run_stages' = <<>>
    /\ run_failed' = "none"
    /\ run_in' = <<run_downloaded, run_uploaded>>

\* a stage fails: the `?` (or the `return` of App::speedtest) ends the call
StageFails(stage, error) ==
    /\ run_stages' = Append(run_stages, stage)
    /\ run_failed' = stage
    /\ run_result' = error
    /\ run_pc' = "returned"

\* a variant of LibCall that fetches no config when one is held already
LibCallKeepsConfig(op) ==
    /\ run_path = "library"
    /\ run_pc \in {"ready", "returned"}
    /\ n_calls < MaxCalls
    /\ n_calls' = n_calls + 1
    /\ run_op' = op
    /\ run_cfg' = st_config
    /\ run_list' = <<>>
    /\ run_stages' = <<>>
    /\ run_failed' = "none"
    /\ run_in' = <<run_downloaded, run_uploaded>>
    /\ IF Initialized
       THEN IF op = "initialize"
            THEN run_pc' = "returned" /\ run_result' = "ok"
            ELSE /\ run_pc' = (IF op = "do_download" THEN "download" ELSE "upload")
                 /\ run_result' = "none"
       ELSE /\ run_pc' = (IF st_config /= <<>> THEN "fetch_servers" ELSE "fetch_config")
            /\ run_result' = "none"
    /\ UNCHANGED <<run_path, st_config, st_server, run_server, run_downloaded,
                   run_uploaded, run_used>>
    /\ UNCHANGED <<selVars, phaseVars, streamVars, fetchVars, reqVars, filterVars, callVars, appVars>>

\* a variant of LibCall without the already-initialized check
LibCallAlwaysFetch(op) ==
    /\ run_path = "library"
    /\ run_pc \in {"ready", "returned"}
    /\ CallBegins(op)
    /\ run_pc' = "fetch_config"
    /\ run_result' = "none"
    /\ UNCHANGED <<run_path, st_config, st_server, run_server, run_downloaded,
                   run_uploaded, run_used>>
    /\ UNCHANGED <<selVars, phaseVars, streamVars, fetchVars, reqVars, filterVars, callVars, appVars>>

\* initialize / do_download / do_upload is called: initialize returns at
\* once when config and server are both held
LibCall(op) ==
    /\ run_path = "library"
    /\ run_pc \in {"ready", "returned"}
    /\ CallBegins(op)
    /\ IF Initialized
       THEN IF op = "initialize"
            THEN run_pc' = "returned" /\ run_result' = "ok"
            ELSE /\ run_pc' = (IF op = "do_download" THEN "download" ELSE "upload")
                 /\ run_result' = "none"
       ELSE /\ run_pc' = "fetch_config"
            /\ run_result' = "none"
    /\ UNCHANGED <<run_path, st_config, st_server, run_server, run_downloaded,
                   run_uploaded, run_used>>
    /\ UNCHANGED <<selVars, phaseVars, streamVars, fetchVars, reqVars, filterVars, callVars, appVars>>

\* get_config: self.config.as_ref().ok_or(..)
get_config ==
    IF st_config = <<>> THEN <<"err", "config is empty. maybe call initialize first">>
                        ELSE <<"ok", st_config[1]>>

\* get_server: self.server.as_ref().ok_or(..)
get_server ==
    IF st_server = <<>> THEN <<"err", "server is empty. maybe call initialize first">>
                        ELSE <<"ok", st_server[1]>>

\* get_config() or get_server() is called between two calls of the others
LibGet(op) ==
    /\ run_path = "library"
    /\ run_pc \in {"ready", "returned"}
    /\ CallBegins(op)
    /\ LET got == IF op = "get_config" THEN get_config ELSE get_server
       IN  run_result' = IF got[1] = "ok" THEN "ok" ELSE got[2]
    /\ run_pc' = "returned"
    /\ UNCHANGED <<run_path, st_config, st_server, run_server, run_downloaded,
                   run_uploaded, run_used>>
    /\ UNCHANGED <<selVars, phaseVars, streamVars, fetchVars, reqVars, filterVars, callVars, appVars>>

\* let config = self.fetch_config().await?;
LibFetchConfig ==
    /\ run_path = "library"
    /\ run_pc = "fetch_config"
    /\ \/ \E cfg \in RunConfigs :
             /\ run_cfg' = <<cfg>>
             /\ run_stages' = Append(run_stages, "fetch_config")
             /\ run_pc' = "fetch_servers"
             /\ UNCHANGED <<run_failed, run_result>>
       \/ /\ StageFails("fetch_config", "all fetch config failed")
          /\ UNCHANGED run_cfg
    /\ UNCHANGED <<run_path, st_config, st_server, run_op, run_list, run_server,
                   run_downloaded, run_uploaded, run_in, run_used, n_calls>>
    /\ UNCHANGED <<selVars, phaseVars, streamVars, fetchVars, reqVars, filterVars, callVars, appVars>>

\* let mut servers = self.fetch_servers(..).await?; then the filter by the
\* ignore-list and self.config = Some(config)
LibFetchServers ==
    /\ run_path = "library"
    /\ run_pc = "fetch_servers"
    /\ \/ \E list \in RunDirectories :
             /\ run_list' = filter_ignored_servers(list, run_cfg[1].ignoreids)
             /\ st_config' = run_cfg
             /\ run_stages' = run_stages \o <<"fetch_servers", "filter">>
             /\ run_pc' = "select"
             /\ UNCHANGED <<run_failed, run_result>>
       \/ /\ StageFails("fetch_servers", "all fetch servers failed")
          /\ UNCHANGED <<run_list, st_config>>
    /\ UNCHANGED <<run_path, st_server, run_op, run_cfg, run_server,
                   run_downloaded, run_uploaded, run_in, run_used, n_calls>>
    /\ UNCHANGED <<selVars, phaseVars, streamVars, fetchVars, reqVars, filterVars, callVars, appVars>>

\* a variant of LibSelect that goes on to the transfer when the selection
\* fails
LibSelectGoesOn ==
    /\ run_path = "library"
    /\ run_pc = "select"
    /\ IF run_list = <<>>
       THEN /\ run_stages' = Append(run_stages, "select")
            /\ run_failed' = "select"
            /\ run_pc' = (IF run_op = "do_upload" THEN "upload" ELSE "download")
            /\ st_server' = <<<<>>>>
            /\ UNCHANGED run_result
       ELSE \E k \in DOMAIN run_list :
                /\ st_server' = <<run_list[k]>>
                /\ run_stages' = Append(run_stages, "select")
                /\ UNCHANGED run_failed
                /\ IF run_op = "initialize"
                   THEN run_pc' = "returned" /\ run_result' = "ok"
                   ELSE /\ run_pc' = (IF run_op = "do_download" THEN "download"
                                                                ELSE "upload")
                        /\ UNCHANGED run_result
    /\ UNCHANGED <<run_path, st_config, run_op, run_cfg, run_list, run_server,
                   run_downloaded, run_uploaded, run_in, run_used, n_calls>>
    /\ UNCHANGED <<selVars, phaseVars, streamVars, fetchVars, reqVars, filterVars, callVars, appVars>>

\* let fastest_server = self.select_fastest_server(servers).await?; and
\* self.server = Some(fastest_server).  The selection fails on an empty
\* list, returns a server of the list, or never returns.
LibSelect ==
    /\ run_path = "library"
    /\ run_pc = "select"
    /\ IF run_list = <<>>
       THEN /\ StageFails("select", "no servers")
            /\ UNCHANGED st_server
       ELSE \/ \E k \in DOMAIN run_list :
                   /\ st_server' = <<run_list[k]>>
                   /\ run_stages' = Append(run_stages, "select")
                   /\ UNCHANGED run_failed
                   /\ IF run_op = "initialize"
                      THEN run_pc' = "returned" /\ run_result' = "ok"
                      ELSE /\ run_pc' = (IF run_op = "do_download" THEN "download"
                                                                   ELSE "upload")
                           /\ UNCHANGED run_result
            \/ /\ run_pc' = "hung"
               /\ run_stages' = Append(run_stages, "select")
               /\ UNCHANGED <<st_server, run_failed, run_result>>
    /\ UNCHANGED <<run_path, st_config, run_op, run_cfg, run_list, run_server,
                   run_downloaded, run_uploaded, run_in, run_used, n_calls>>
    /\ UNCHANGED <<selVars, phaseVars, streamVars, fetchVars, reqVars, filterVars, callVars, appVars>>

\* self.download(config, server, downloaded).await / self.upload(..).await,
\* then Ok(())
LibTransfer ==
    /\ run_path = "library"
    /\ run_pc \in {"download", "upload"}
    /\ \E b \in 0..1 :
          IF run_pc = "download"
          THEN /\ run_downloaded + b <= MaxRunBytes
               /\ run_downloaded' = run_downloaded + b
               /\ UNCHANGED run_uploaded
          ELSE /\ run_uploaded + b <= MaxRunBytes
               /\ run_uploaded' = run_uploaded + b
               /\ UNCHANGED run_downloaded
    /\ run_used' = Append(run_used, st_server[1])
    /\ run_stages' = Append(run_stages, run_pc)
    /\ run_pc' = "returned"
    /\ run_result' = "ok"
    /\ UNCHANGED <<run_path, st_config, st_server, run_op, run_cfg, run_list,
                   run_server, run_failed, run_in, n_calls>>
    /\ UNCHANGED <<selVars, phaseVars, streamVars, fetchVars, reqVars, filterVars, callVars, appVars>>

\* App::speedtest is spawned (spawn_speed_test)
CliStart ==
    /\ run_path = "cli"
    /\ run_pc = "ready"
    /\ CallBegins("speedtest")
    /\ run_pc' = "fetch_config"
    /\ UNCHANGED <<run_path, st_config, st_server, run_server, run_result,
                   run_downloaded, run_uploaded, run_used>>
    /\ UNCHANGED <<selVars, phaseVars, streamVars, fetchVars, reqVars, filterVars, callVars, appVars>>

\* let config = match speed_tester.fetch_config().await { .. }
CliFetchConfig ==
    /\ run_path = "cli"
    /\ run_pc = "fetch_config"
    /\ \/ \E cfg \in RunConfigs :
             /\ run_cfg' = <<cfg>>
             /\ run_stages' = Append(run_stages, "fetch_config")
             /\ run_pc' = "fetch_servers"
             /\ UNCHANGED <<run_failed, run_result>>
       \/ /\ StageFails("fetch_config", "all fetch config failed")
          /\ UNCHANGED run_cfg
    /\ UNCHANGED <<run_path, st_config, st_server, run_op, run_list, run_server,
                   run_downloaded, run_uploaded, run_in, run_used, n_calls>>
    /\ UNCHANGED <<selVars, phaseVars, streamVars, fetchVars, reqVars, filterVars, callVars, appVars>>

\* let servers = match speed_tester.fetch_servers(config.threads()).await
\* { .. }: the list goes to the selection as fetched
CliFetchServers ==
    /\ run_path = "cli"
    /\ run_pc = "fetch_servers"
    /\ \/ \E list \in RunDirectories :
             /\ run_list' = list
             /\ run_stages' = Append(run_stages, "fetch_servers")
             /\ run_pc' = "select"
             /\ UNCHANGED <<run_failed, run_result>>
       \/ /\ StageFails("fetch_servers", "all fetch servers failed")
          /\ UNCHANGED run_list
    /\ UNCHANGED <<run_path, st_config, st_server, run_op, run_cfg, run_server,
                   run_downloaded, run_uploaded, run_in, run_used, n_calls>>
    /\ UNCHANGED <<selVars, phaseVars, streamVars, fetchVars, reqVars, filterVars, callVars, appVars>>

\* let server = match speed_tester.select_fastest_server(..).await { .. }
CliSelect ==
    /\ run_path = "cli"
    /\ run_pc = "select"
    /\ IF run_list = <<>>
       THEN /\ StageFails("select", "no servers")
            /\ UNCHANGED run_server
       ELSE \/ \E k \in DOMAIN run_list :
                   /\ run_server' = <<run_list[k]>>
                   /\ run_stages' = Append(run_stages, "select")
                   /\ run_pc' = "download"
                   /\ UNCHANGED <<run_failed, run_result>>
            \/ /\ run_pc' = "hung"
               /\ run_stages' = Append(run_stages, "select")
               /\ UNCHANGED <<run_server, run_failed, run_result>>
    /\ UNCHANGED <<run_path, st_config, st_server, run_op, run_cfg, run_list,
                   run_downloaded, run_uploaded, run_in, run_used, n_calls>>
    /\ UNCHANGED <<selVars, phaseVars, streamVars, fetchVars, reqVars, filterVars, callVars, appVars>>

\* speed_tester.download(&config, &server, downloaded).await
CliDownload ==
    /\ run_path = "cli"
    /\ run_pc = "download"
    /\ \E b \in 0..1 :
          /\ run_downloaded + b <= MaxRunBytes
          /\ run_downloaded' = run_downloaded + b
    /\ run_used' = Append(run_used, run_server[1])
    /\ run_stages' = Append(run_stages, "download")
    /\ run_pc' = "upload"
    /\ UNCHANGED <<run_path, st_config, st_server, run_op, run_cfg, run_list,
                   run_server, run_failed, run_result, run_uploaded, run_in, n_calls>>
    /\ UNCHANGED <<selVars, phaseVars, streamVars, fetchVars, reqVars, filterVars, callVars, appVars>>

\* speed_tester.upload(&config, &server, uploaded).await, and the end
CliUpload ==
    /\ run_path = "cli"
    /\ run_pc = "upload"
    /\ \E b \in 0..1 :
          /\ run_uploaded + b <= MaxRunBytes
          /\ run_uploaded' = run_uploaded + b
    /\ run_used' = Append(run_used, run_server[1])
    /\ run_stages' = Append(run_stages, "upload")
    /\ run_pc' = "returned"
    /\ run_result' = "ok"
    /\ UNCHANGED <<run_path, st_config, st_server, run_op, run_cfg, run_list,
                   run_server, run_failed, run_downloaded, run_in, n_calls>>
    /\ UNCHANGED <<selVars, phaseVars, streamVars, fetchVars, reqVars, filterVars, callVars, appVars>>

NextRun ==
    \/ \E op \in {"initialize", "do_download", "do_upload"} : LibCall(op)
    \/ \E op \in {"get_config", "get_server"} : LibGet(op)
    \/ LibFetchConfig
    \/ LibFetchServers
    \/ LibSelect
    \/ LibTransfer
    \/ CliStart
    \/ CliFetchConfig
    \/ CliFetchServers
    \/ CliSelect
    \/ CliDownload
    \/ CliUpload

SpecRun == InitRun /\ [][NextRun]_vars

(***************************************************************************)
(* Calls of functions without effects.                                     *)
(***************************************************************************)
\* the Configs accessor calls are made with
AccessorConfigs ==
    {[server_config |-> [threadcount |-> tc],
      download |-> [testlength |-> 0, threadsperurl |-> 0],
      upload |-> [testlength |-> 0, ratio |-> r, threads |-> 0, maxchunkcount |-> 0]] :
        tc \in 0..MaxThreadCount, r \in RatioValues}

\* the Configs task sizes are computed for
TaskConfigs ==
    {[server_config |-> [threadcount |-> 0],
      download |-> [testlength |-> 0, threadsperurl |-> tpu],
      upload |-> [testlength |-> 0, ratio |-> r, threads |-> 0, maxchunkcount |-> mc]] :
        tpu \in 0..MaxCallThreadsPerUrl, r \in RatioValues, mc \in 0..MaxCallChunkCount}

\* the SpeedTestUrl values URLs are asked of
UrlSelves == [use_tls : BOOLEAN, threads : 0..MaxUrlThreads]

\* N of a phase: max_download_count of download, max_upload_count of upload
CountOf(k, cfg) ==
    IF k = "download"
    THEN download_count_per_url(cfg) * Len(download_size_sequence(cfg))
    ELSE max_upload_count(cfg)

\* seq of a phase
SeqOf(k, cfg) ==
    IF k = "download" THEN download_size_sequence(cfg) ELSE upload_size_sequence(cfg)

InitCall ==
    /\ IdleSelect
    /\ IdlePhase
    /\ IdleStream
    /\ IdleFetch
    /\ IdleReq
    /\ IdleFilter
    /\ IdleRun
    /\ IdleApp
    /\ call_pc = "entry"
    /\ call_out = <<>>
    /\ \/ /\ call_fn = "accessors"
          /\ \E cfg \in AccessorConfigs : call_cfg = <<cfg>>
          /\ call_kind = "none"
          /\ call_index = 0
          /\ call_self = <<>>
       \/ /\ call_fn = "task_size"
          /\ call_kind \in {"download", "upload"}
          /\ \E cfg \in TaskConfigs :
                /\ call_cfg = <<cfg>>
                /\ IF call_kind = "download"
                   THEN cfg.upload.ratio = 0 /\ cfg.upload.maxchunkcount = 0
                   ELSE cfg.download.threadsperurl = 0
                /\ call_index \in 0..(CountOf(call_kind, cfg) - 1)
          /\ call_self = <<>>
       \/ /\ call_fn = "urls"
          /\ call_cfg = <<>>
          /\ call_kind = "none"
          /\ call_index = 0
          /\ \E self \in UrlSelves : call_self = <<self>>

\* the accessors of Config that the phases and fetch_servers use
CallAccessors ==
    /\ call_fn = "accessors"
    /\ call_pc = "entry"
    /\ call_pc' = "done"
    /\ LET cfg == call_cfg[1] IN
          call_out' = <<[threads |-> threads(cfg),
                         download_threads |-> download_threads(cfg),
                         download_size_sequence |-> download_size_sequence(cfg),
                         upload_size_sequence |-> upload_size_sequence(cfg)]>>
    /\ UNCHANGED <<call_fn, call_cfg, call_kind, call_index, call_self>>
    /\ UNCHANGED <<selVars, phaseVars, streamVars, fetchVars, reqVars, filterVars, runVars, appVars>>

\* the head of the closure a phase maps task number i with:
\* let size = seq[i % seq.len()]
CallTaskSize ==
    /\ call_fn = "task_size"
    /\ call_pc = "entry"
    /\ call_pc' = "done"
    /\ call_out' = <<SizeAt(SeqOf(call_kind, call_cfg[1]), call_index)>>
    /\ UNCHANGED <<call_fn, call_cfg, call_kind, call_index, call_self>>
    /\ UNCHANGED <<selVars, phaseVars, streamVars, fetchVars, reqVars, filterVars, runVars, appVars>>

\* config_urls().collect() and server_urls().collect()
CallUrls ==
    /\ call_fn = "urls"
    /\ call_pc = "entry"
    /\ call_pc' = "done"
    /\ call_out' = <<[config_urls |-> config_urls(call_self[1]),
                      server_urls |-> server_urls(call_self[1])]>>
    /\ UNCHANGED <<call_fn, call_cfg, call_kind, call_index, call_self>>
    /\ UNCHANGED <<selVars, phaseVars, streamVars, fetchVars, reqVars, filterVars, runVars, appVars>>

NextCall ==
    \/ CallAccessors
    \/ CallTaskSize
    \/ CallUrls

SpecCall == InitCall /\ [][NextCall]_vars

(***************************************************************************)
(* The terminal application: App::run receives the events of the           *)
(* EventHandler one at a time; the task spawned by spawn_speed_test runs   *)
(* App::speedtest under a select on the shutdown signal; the EventTask     *)
(* sends ticks and key events.                                             *)
(***************************************************************************)
\* the conditions and outcomes the application is run under
MaxQueue == 2

MaxAppBytes == 2

\* the counters are u64; the model's are narrowed to this many bits
CounterBits == 16

CounterModulus == 2 ^ CounterBits

\* a - b on unsigned integers in a build without overflow checks
wrapping_sub(a, b) == (a - b) % CounterModulus

\* Option::unwrap_or
unwrap_or(opt, default) == IF opt = <<>> THEN default ELSE opt[1]

\* the place of a state in Stages
StageIndex(name) == CHOOSE k \in 1..Len(Stages) : Stages[k] = name

\* the App and the receiver of its EventHandler exist
AppAlive == app_pc \in {"new", "loop"}

\* App::default(): running, no shutdown sent, every Progress pending, the
\* counters at zero, no report made
InitApp ==
    /\ IdleCall
    /\ IdleSelect
    /\ IdlePhase
    /\ IdleStream
    /\ IdleFetch
    /\ IdleReq
    /\ IdleFilter
    /\ IdleRun
    /\ app_pc = "new"
    /\ running = TRUE
    /\ app_shutdown = FALSE
    /\ events = <<>>
    /\ speedtest_pc = "unspawned"
    /\ sent = <<>>
    /\ status = [k \in 1..Len(Stages) |-> "Pending"]
    /\ downloaded = 0
    /\ uploaded = 0
    /\ last_download_time = <<>>
    /\ last_download_count = <<>>
    /\ last_upload_time = <<>>
    /\ last_upload_count = <<>>

\* the variables of the App the event loop writes
loopVars == <<running, app_shutdown, status, last_download_time, last_download_count,
              last_upload_time, last_upload_count>>

\* App::run: self.spawn_speed_test(), then the loop
AppRun ==
    /\ app_pc = "new"
    /\ app_pc' = "loop"
    /\ speedtest_pc' = "spawned"
    /\ UNCHANGED <<loopVars, events, sent, downloaded, uploaded>>
    /\ UNCHANGED <<selVars, phaseVars, streamVars, fetchVars, reqVars, filterVars,
                   runVars, callVars>>

\* the keys of handle_key_events: one that quits, one that scrolls
Keys == {"q", "j"}

\* EventTask::run sends a Tick or a Crossterm key event
EventTaskSends ==
    /\ AppAlive
    /\ Len(events) < MaxQueue
    /\ \E ev \in {<<"Tick">>} \cup {<<"Key", k>> : k \in Keys} : events' = Append(events, ev)
    /\ UNCHANGED <<app_pc, loopVars, speedtest_pc, sent, downloaded, uploaded>>
    /\ UNCHANGED <<selVars, phaseVars, streamVars, fetchVars, reqVars, filterVars,
                   runVars, callVars>>

\* sender.send(State::X(Status::Y).into()) for each pair, in order; a send
\* to a dropped receiver is ignored
Emit(pairs) ==
    /\ sent' = sent \o pairs
    /\ events' = IF AppAlive
                 THEN events \o [k \in 1..Len(pairs) |->
                                    <<"SetState", pairs[k][1], pairs[k][2]>>]
                 ELSE events

\* a variant of SpeedtestPolled for a select! without `biased;`
SpeedtestPolledAnyOrder == TRUE

\* tokio::select! { biased; _ = shutdown.changed() => {}, _ = App::speedtest(..) => {} }:
\* the speedtest branch is polled only when no change of the signal is seen
SpeedtestPolled == ~app_shutdown

\* the positions at which the spawned task is suspended
Suspended == {"spawned", "fetch_config", "fetch_servers", "select", "hung",
              "download", "upload"}

\* the shutdown branch of the select is ready: the task ends and the
\* speedtest future is dropped
TaskStops ==
    /\ speedtest_pc \in Suspended
    /\ app_shutdown
    /\ speedtest_pc' = "stopped"
    /\ UNCHANGED <<app_pc, loopVars, events, sent, downloaded, uploaded>>
    /\ UNCHANGED <<selVars, phaseVars, streamVars, fetchVars, reqVars, filterVars,
                   runVars, callVars>>

\* what a step of App::speedtest leaves alone
SpeedtestFrame ==
    /\ UNCHANGED <<app_pc, loopVars, downloaded, uploaded>>
    /\ UNCHANGED <<selVars, phaseVars, streamVars, fetchVars, reqVars, filterVars,
                   runVars, callVars>>

\* the first poll: FetchConfig(Start), up to fetch_config().await
SpeedtestBegins ==
    /\ speedtest_pc = "spawned"
    /\ SpeedtestPolled
    /\ Emit(<<<<"FetchConfig", "Start">>>>)
    /\ speedtest_pc' = "fetch_config"
    /\ SpeedtestFrame

\* a variant of SpeedtestFetchConfig that goes on after the error
SpeedtestFetchConfigGoesOn ==
    /\ speedtest_pc = "fetch_config"
    /\ SpeedtestPolled
    /\ \/ Emit(<<<<"FetchConfig", "Ok">>, <<"FetchServers", "Start">>>>)
       \/ Emit(<<<<"FetchConfig", "Err">>, <<"FetchServers", "Start">>>>)
    /\ speedtest_pc' = "fetch_servers"
    /\ SpeedtestFrame

\* fetch_config().await is over: Ok and FetchServers(Start), or Err and return
SpeedtestFetchConfig ==
    /\ speedtest_pc = "fetch_config"
    /\ SpeedtestPolled
    /\ \/ /\ Emit(<<<<"FetchConfig", "Ok">>, <<"FetchServers", "Start">>>>)
          /\ speedtest_pc' = "fetch_servers"
       \/ /\ Emit(<<<<"FetchConfig", "Err">>>>)
          /\ speedtest_pc' = "returned"
    /\ SpeedtestFrame

\* fetch_servers(..).await is over: Ok and RacingServers(Start), or Err and
\* return; select_fastest_server fails at once, without suspending, on an
\* empty list
SpeedtestFetchServers ==
    /\ speedtest_pc = "fetch_servers"
    /\ SpeedtestPolled
    /\ \/ /\ Emit(<<<<"FetchServers", "Ok">>, <<"RacingServers", "Start">>>>)
          /\ speedtest_pc' = "select"
       \/ /\ Emit(<<<<"FetchServers", "Ok">>, <<"RacingServers", "Start">>,
                    <<"RacingServers", "Err">>>>)
          /\ speedtest_pc' = "returned"
       \/ /\ Emit(<<<<"FetchServers", "Err">>>>)
          /\ speedtest_pc' = "returned"
    /\ SpeedtestFrame

\* select_fastest_server(..).await is over: Ok and Download(Start); or it
\* never is (the selector waits on its channel for ever)
SpeedtestSelect ==
    /\ speedtest_pc = "select"
    /\ SpeedtestPolled
    /\ \/ /\ Emit(<<<<"RacingServers", "Ok">>, <<"Download", "Start">>>>)
          /\ speedtest_pc' = "download"
       \/ /\ speedtest_pc' = "hung"
          /\ UNCHANGED <<sent, events>>
    /\ SpeedtestFrame

\* download(..).await is over: Download(Ok), Upload(Start)
SpeedtestDownload ==
    /\ speedtest_pc = "download"
    /\ SpeedtestPolled
    /\ Emit(<<<<"Download", "Ok">>, <<"Upload", "Start">>>>)
    /\ speedtest_pc' = "upload"
    /\ SpeedtestFrame

\* upload(..).await is over: Upload(Ok), and the end
SpeedtestUpload ==
    /\ speedtest_pc = "upload"
    /\ SpeedtestPolled
    /\ Emit(<<<<"Upload", "Ok">>>>)
    /\ speedtest_pc' = "returned"
    /\ SpeedtestFrame

\* a download task adds a chunk to `downloaded` (single_download), in a
\* poll of the speedtest future
DownloadedRises ==
    /\ speedtest_pc = "download"
    /\ SpeedtestPolled
    /\ downloaded < MaxAppBytes
    /\ downloaded' = downloaded + 1
    /\ UNCHANGED <<app_pc, loopVars, events, speedtest_pc, sent, uploaded>>
    /\ UNCHANGED <<selVars, phaseVars, streamVars, fetchVars, reqVars, filterVars,
                   runVars, callVars>>

\* an upload body adds a chunk to `uploaded` (create_zero_stream): while
\* upload() runs, and after it, from a connection that still holds a body
UploadedRises ==
    /\ \E k \in DOMAIN sent : sent[k] = <<"Upload", "Start">>
    /\ uploaded < MaxAppBytes
    /\ uploaded' = uploaded + 1
    /\ UNCHANGED <<app_pc, loopVars, events, speedtest_pc, sent, downloaded>>
    /\ UNCHANGED <<selVars, phaseVars, streamVars, fetchVars, reqVars, filterVars,
                   runVars, callVars>>

\* App::run is at self.events.next().await and an event is there
Receives(name) ==
    /\ app_pc = "loop"
    /\ running
    /\ events /= <<>>
    /\ Head(events)[1] = name

\* what a handler of the loop leaves alone
LoopFrame ==
    /\ UNCHANGED <<speedtest_pc, sent, downloaded, uploaded>>
    /\ UNCHANGED <<selVars, phaseVars, streamVars, fetchVars, reqVars, filterVars,
                   runVars, callVars>>

\* one half of tick(): when a phase is running and the record interval has
\* passed (due), the speed is computed from current - last.unwrap_or(0) and
\* the count read becomes the last count
tick_part(time, st, current, last, due) ==
    IF time /= <<>> /\ st = "Start" /\ due
    THEN [count |-> <<current>>, underflow |-> current < unwrap_or(last, 0)]
    ELSE [count |-> last, underflow |-> FALSE]

\* tick() with the two counts it loads; an underflow panics in a build with
\* overflow checks and goes unnoticed in one without
tick(current_downloaded, current_uploaded) ==
    /\ events' = Tail(events)
    /\ \E download_due, upload_due \in BOOLEAN :
          LET d == tick_part(last_download_time, status[StageIndex("Download")],
                             current_downloaded, last_download_count, download_due)
              u == tick_part(last_upload_time, status[StageIndex("Upload")],
                             current_uploaded, last_upload_count, upload_due)
          IN  \/ /\ d.underflow \/ u.underflow
                 /\ app_pc' = "panicked"
                 /\ last_download_count' =
                        IF d.underflow THEN last_download_count ELSE d.count
                 /\ UNCHANGED last_upload_count
              \/ /\ app_pc' = app_pc
                 /\ last_download_count' = d.count
                 /\ last_upload_count' = u.count
    /\ UNCHANGED <<running, app_shutdown, status, last_download_time, last_upload_time>>
    /\ LoopFrame

\* a variant of HandleTick whose upload half loads self.downloaded
HandleTickLoadsDownloaded ==
    /\ Receives("Tick")
    /\ tick(downloaded, downloaded)

\* Event::Tick => self.tick()
HandleTick ==
    /\ Receives("Tick")
    /\ tick(downloaded, uploaded)

\* Event::Crossterm(Key): q sends AppEvent::Quit, j scrolls
HandleKey ==
    /\ Receives("Key")
    /\ events' = IF Head(events)[2] = "q" THEN Append(Tail(events), <<"Quit">>)
                                          ELSE Tail(events)
    /\ UNCHANGED <<app_pc, loopVars>>
    /\ LoopFrame

\* AppEvent::Quit => self.quit(): the signal is sent, running is false and
\* the loop of App::run ends
HandleQuit ==
    /\ Receives("Quit")
    /\ events' = Tail(events)
    /\ app_shutdown' = TRUE
    /\ running' = FALSE
    /\ app_pc' = "exited"
    /\ UNCHANGED <<status, last_download_time, last_download_count,
                   last_upload_time, last_upload_count>>
    /\ LoopFrame

\* State::is_error
is_error(stage, st) ==
    st = "Err" /\ stage \in {"FetchConfig", "FetchServers", "RacingServers"}

\* State::cancel_after: the states after this one, canceled
cancel_after(stage) ==
    [j \in 1..(Len(Stages) - StageIndex(stage)) |->
        <<"SetState", Stages[StageIndex(stage) + j], "Canceled">>]

\* the Download / Upload arm of handle_app_events before apply_status: Start
\* notes the time; Ok and Err compute load - last.unwrap_or(0), unwrap
\* the time and store the difference; other statuses do nothing
report(st, loaded, time, last) ==
    IF st = "Start"
    THEN [time |-> <<"Instant">>, count |-> last, underflow |-> FALSE, no_time |-> FALSE]
    ELSE IF st \in {"Ok", "Err"}
    THEN [time |-> time,
          count |-> <<wrapping_sub(loaded, unwrap_or(last, 0))>>,
          underflow |-> loaded < unwrap_or(last, 0),
          no_time |-> time = <<>>]
    ELSE [time |-> time, count |-> last, underflow |-> FALSE, no_time |-> FALSE]

\* AppEvent::SetState(state): the report of a transfer state, apply_status,
\* and the cancel list of a failed state
HandleSetState ==
    /\ Receives("SetState")
    /\ LET stage == Head(events)[2]
           st == Head(events)[3]
           d == IF stage = "Download"
                THEN report(st, downloaded, last_download_time, last_download_count)
                ELSE report("Pending", downloaded, last_download_time, last_download_count)
           u == IF stage = "Upload"
                THEN report(st, uploaded, last_upload_time, last_upload_count)
                ELSE report("Pending", uploaded, last_upload_time, last_upload_count)
       IN  \/ /\ d.underflow \/ u.underflow \/ d.no_time \/ u.no_time
              /\ app_pc' = "panicked"
              /\ events' = Tail(events)
              /\ UNCHANGED <<status, last_download_time, last_download_count,
                             last_upload_time, last_upload_count>>
           \/ /\ ~(d.no_time \/ u.no_time)
              /\ app_pc' = app_pc
              /\ last_download_time' = d.time
              /\ last_download_count' = d.count
              /\ last_upload_time' = u.time
              /\ last_upload_count' = u.count
              /\ status' = [status EXCEPT ![StageIndex(stage)] = st]
              /\ events' = Tail(events) \o
                              (IF is_error(stage, st) THEN cancel_after(stage) ELSE <<>>)
    /\ UNCHANGED <<running, app_shutdown>>
    /\ LoopFrame

NextApp ==
    \/ AppRun
    \/ EventTaskSends
    \/ TaskStops
    \/ SpeedtestBegins
    \/ SpeedtestFetchConfig
    \/ SpeedtestFetchServers
    \/ SpeedtestSelect
    \/ SpeedtestDownload
    \/ SpeedtestUpload
    \/ DownloadedRises
    \/ UploadedRises
    \/ HandleTick
    \/ HandleKey
    \/ HandleQuit
    \/ HandleSetState

\* the watch channel wakes the spawned task when the signal is sent
FairApp == WF_vars(TaskStops)

SpecApp == InitApp /\ [][NextApp]_vars /\ FairApp

\* every machine of the module
Init ==
    \/ InitSelect
    \/ InitPhase
    \/ InitStream
    \/ InitFetch
    \/ InitReq
    \/ InitFilter
    \/ InitRun
    \/ InitCall
    \/ InitApp

Next ==
    \/ NextSelect
    \/ NextPhase
    \/ NextStream
    \/ NextFetch
    \/ NextReq
    \/ NextFilter
    \/ NextRun
    \/ NextCall
    \/ NextApp

Spec ==
    /\ Init /\ [][Next]_vars
    /\ FairSelect /\ FairPhase /\ FairStream /\ FairFetch /\ FairReq
    /\ WF_vars(NextFilter)
    /\ WF_vars(NextCall)
    /\ FairApp

(***************************************************************************)
(* Properties of the latency race.                                         *)
(***************************************************************************)
SelectorReturned == sel_pc \in {"ok", "err_no_servers", "err_all_failed"}

AllReported == \A s \in DOMAIN probe : probe[s].pc = "reported"

\* the least aggregate delay over the probes (all of which have reported)
MinDelay == CHOOSE d \in {probe[s].delay : s \in DOMAIN probe} :
                \A s \in DOMAIN probe : d <= probe[s].delay

\* C1: with a non-empty list whose every probe round fails, the selection
\* ends with the 'all servers failed' error, and it ends so only after every
\* probe task has reported.
C1_AllFailedEndsInError ==
    /\ (servers /= {} /\ dead = servers) ~> (sel_pc = "err_all_failed")
    /\ [](sel_pc = "err_all_failed" => AllReported)

\* C2: for every non-empty server list the selection eventually returns a
\* server or an error (every probe request ends, every task is scheduled).
C2_SelectorEventuallyReturns ==
    (servers /= {}) ~> SelectorReturned

\* C3: a first report with delay < 2 x timeout is returned as the winner
\* with no other report received and with shutdown = true broadcast.
C3_EarlyWinner ==
    (first_report /= <<>> /\ first_report[1][2] < Timeout * 2)
        => /\ sel_pc = "ok"
           /\ result = first_report[1][1]
           /\ nrecv = 1
           /\ shutdown

\* C3 witness: the winner was returned while another probe was still running
C3_Witness ==
    /\ sel_pc = "ok"
    /\ first_report /= <<>>
    /\ first_report[1][2] < Timeout * 2
    /\ \E s \in DOMAIN probe : s /= result /\ ProbeAlive(s)

\* C4: once the first report has delay >= 2 x timeout, the selection is
\* decided over the reports of all servers, no probe being cancelled: it
\* returns a server of least aggregate delay when that delay is below
\* 2 x timeout x compare_times, and fails with 'all servers failed' exactly
\* when it is not.
C4_SlowPathDecides ==
    (sel_pc = "drain") ~>
        /\ sel_pc \in {"ok", "err_all_failed"}
        /\ ~shutdown
        /\ AllReported
        /\ (sel_pc = "ok") <=> (MinDelay < Timeout * 2 * compare_times)
        /\ (sel_pc = "ok") => probe[result].delay = MinDelay

\* C5: an empty server list ends in the 'no servers' error, with no channel
\* created, no probe task spawned, no request issued; and only an empty list
\* ends so.
C5_NoServers ==
    /\ (servers = {} /\ sel_pc /= "entry")
          => /\ sel_pc = "err_no_servers"
             /\ chan_cap = 0
             /\ ~tx_held /\ ~rx_alive /\ ~shutdown_tx_alive
             /\ probe = <<>>
    /\ (sel_pc = "err_no_servers") => (servers = {})

\* C5 witness: the call with the empty list has returned its error
C5_Witness == servers = {} /\ sel_pc = "err_no_servers"

(***************************************************************************)
(* Properties of cancellation and of the download / upload phases.         *)
(***************************************************************************)
PhaseReturned == ph_pc \in {"timeout", "completed"}

C7_PhaseTerminates ==
    /\ (ph_pc = "entry") ~> PhaseReturned
    /\ [](ph_pc = "timeout" => elapsed >= PhaseDuration)
    /\ [](ph_pc = "completed"
            => (next_index = PhaseCount /\ inflight = EmptyBag
                /\ ndone + nfailed = PhaseCount))
    /\ [][(ph_pc = "select" /\ elapsed >= PhaseDuration) => ph_pc' = "timeout"]_vars
    /\ [][PhaseReturned => UNCHANGED taskVars]_vars

\* C7 witness: the timer ended a phase whose tasks never got an answer
C7_Witness ==
    /\ ph_pc = "timeout"
    /\ PhaseDuration > 0
    /\ ndropped > 0
    /\ ndone = 0 /\ nfailed = 0 /\ counter = 0

\* C8: the number of transfer tasks in flight is at most C, for every Config.
C8_InFlightAtMostLimit ==
    (kind /= "none") => (InFlight <= PhaseLimit)

\* C9: a failing transfer task ends alone: the phase goes on, no index is
\* started twice, at most N tasks are started, and a phase that completes
\* has started every index.
C9_TaskFailureIsLocal ==
    /\ [](\A i \in DOMAIN starts : starts[i] <= 1)
    /\ [](ph_pc \notin {"idle", "entry"} => DOMAIN starts = 0..(PhaseCount - 1))
    /\ [](next_index <= PhaseCount)
    /\ [](ph_pc = "completed" => \A i \in DOMAIN starts : starts[i] = 1)
    /\ [][nfailed' /= nfailed
            => /\ nfailed' = nfailed + 1
               /\ InFlight' = InFlight - 1
               /\ ph_pc' = ph_pc
               /\ UNCHANGED <<next_index, starts, ndone, ndropped, counter>>]_vars

\* C9 witness: with one task at a time, both tasks failed and the phase
\* still completed
C9_Witness ==
    /\ ph_pc = "completed"
    /\ PhaseLimit = 1
    /\ PhaseCount = 2
    /\ nfailed = 2

C11_CounterMonotone ==
    [][counter' >= counter]_vars

\* C11 witness: two download tasks in flight have filled the counter
C11_Witness ==
    /\ kind = "download"
    /\ InFlight >= 2
    /\ counter = MaxBytes

RECURSIVE SumSeq(_)
SumSeq(sq) == IF sq = <<>> THEN 0 ELSE Head(sq) + SumSeq(Tail(sq))

\* C12: the stream ends after finitely many chunks, each of 1..16384 bytes;
\* the counter has grown by the bytes yielded; at the end these are exactly
\* `size`; for size 0 no chunk is yielded and the counter is left alone.
C12_ZeroStream ==
    /\ (zs_pc = "open") ~> (zs_pc = "done")
    /\ [](\A k \in DOMAIN zs_chunks : zs_chunks[k] >= 1 /\ zs_chunks[k] <= 16 * 1024)
    /\ [](zs_counter = zs_counter0 + SumSeq(zs_chunks))
    /\ [](zs_pc = "done" => SumSeq(zs_chunks) = zs_size)
    /\ []((zs_pc = "done" /\ zs_size = 0)
             => (zs_chunks = <<>> /\ zs_counter = zs_counter0))

\* C12 witness: the stream of the test size was consumed to its end, its
\* last chunk being a short one
C12_Witness ==
    /\ zs_pc = "done"
    /\ zs_size = 16 * 16 * 1025
    /\ Len(zs_chunks) = 17
    /\ zs_chunks[17] = 256

(***************************************************************************)
(* Properties of fetch_config / fetch_servers.                             *)
(***************************************************************************)
\* the candidate URLs whose GET succeeds
OkUrls == {k \in DOMAIN fc_env : fc_env[k] = "ok"}

\* the first candidate URL whose GET succeeds
FirstOk == CHOOSE k \in OkUrls : \A j \in OkUrls : k <= j

\* C13: the URLs are requested in list order, one at a time, each at most
\* once; a returned document is that of the first URL that succeeds, every
\* earlier URL having been requested and failed, and nothing is requested
\* after the call has returned.
C13_FetchInOrder ==
    /\ [](Len(fc_log) = fc_idx /\ fc_idx <= Len(FetchUrls))
    /\ [](\A k \in DOMAIN fc_log : fc_log[k] = FetchUrls[k])
    /\ [](\A k \in 1..(fc_idx - 1) : fc_env[k] /= "ok")
    /\ [](fc_pc = "ok" => /\ OkUrls /= {}
                          /\ fc_idx = FirstOk
                          /\ fc_result = <<FetchUrls[FirstOk]>>)
    /\ [][(fc_pc = "ok" \/ fc_pc = "err") => UNCHANGED fetchVars]_vars
    /\ [][fc_log' /= fc_log => (fc_pc = "loop" /\ fc_pc' = "await"
                                /\ Len(fc_log') = Len(fc_log) + 1)]_vars

\* C13 witness: fetch_servers returned the document of its third URL
C13_Witness ==
    /\ fc_kind = "servers"
    /\ fc_pc = "ok"
    /\ fc_idx = 3
    /\ fc_env[4] = "ok"

\* C14: the fetch fails exactly when the GET of every candidate URL fails,
\* after each of the 2 (config) or 4 (servers) URLs was requested once, with
\* an error that names the resource.
C14_FetchFailsIffAllFail ==
    /\ [](fc_pc = "err" => /\ OkUrls = {}
                           /\ fc_log = FetchUrls
                           /\ Len(fc_log) = (IF fc_kind = "config" THEN 2 ELSE 4))
    /\ [](fc_pc = "err" =>
             fc_result = <<IF fc_kind = "config" THEN "all fetch config failed"
                                                 ELSE "all fetch servers failed">>)
    /\ [](fc_pc = "ok" => OkUrls /= {})
    /\ (fc_kind /= "none" /\ OkUrls = {}) ~> (fc_pc = "err")
    /\ (fc_kind /= "none" /\ OkUrls /= {}) ~> (fc_pc = "ok")

\* C14 witness: fetch_servers failed after four attempts that failed in the
\* three different ways
C14_Witness ==
    /\ fc_kind = "servers"
    /\ fc_pc = "err"
    /\ Len(fc_log) = 4
    /\ {fc_env[k] : k \in DOMAIN fc_env} = {"transport", "status", "parse"}

(***************************************************************************)
(* Properties of the per-request timeout.                                  *)
(***************************************************************************)
\* C15: every HTTP call of the core is bounded by the per-request timeout:
\* no request, at any call site, is still pending after more than `timeout`
\* seconds, whatever the peer does and however long the phase lasts.
C15_EveryCallBounded ==
    (rq_pc = "pending") => (rq_age <= Timeout)

(***************************************************************************)
(* Properties of the ignore-list filter.                                   *)
(***************************************************************************)
\* id is an entry of the comma-separated list str: it fills the room
\* between two neighbouring commas, or between a comma and an end of str
IsEntry(id, str) ==
    \E a \in 1..(Len(str) + 1), b \in 0..Len(str) :
        /\ b >= a - 1
        /\ (a = 1 \/ str[a - 1] = ",")
        /\ (b = Len(str) \/ str[b + 1] = ",")
        /\ \A k \in a..b : str[k] /= ","
        /\ SubSeq(str, a, b) = id

\* C17: after filter_ignored_servers no remaining server has an id that is
\* an entry of the comma-separated ignore-list; the servers that remain are
\* the others, in their order.
C17_FilterRemovesIgnored ==
    (flt_pc = "done") =>
        /\ \A k \in DOMAIN flt_servers : ~IsEntry(flt_servers[k], flt_ignoreids)
        /\ LET NotIgnored(id) == ~IsEntry(id, flt_ignoreids)
           IN  flt_servers = SelectSeq(flt_input, NotIgnored)

\* C17 witness: of two servers, the one named by the second entry of the
\* list was removed and the other kept
C17_Witness ==
    /\ flt_pc = "done"
    /\ flt_ignoreids = <<"1", ",", "2">>
    /\ flt_input = <<<<"2">>, <<"1", "2">>>>
    /\ flt_servers = <<<<"1", "2">>>>

\* C33: filter_ignored_servers removes only ignored servers: the list after
\* the call is the list before it with some positions left out, in the same
\* order, and the id at every position left out is an entry of the
\* ignore-list (a piece between separators, the empty piece included); so a
\* server whose id is no entry stays, as often as it occurred.
C33_FilterKeepsTheOthers ==
    (flt_pc = "done") =>
        /\ \E f \in [1..Len(flt_servers) -> 1..Len(flt_input)] :
              /\ \A j \in 1..Len(flt_servers) : flt_servers[j] = flt_input[f[j]]
              /\ \A i, j \in 1..Len(flt_servers) : i < j => f[i] < f[j]
              /\ \A k \in 1..Len(flt_input) :
                    (\A j \in 1..Len(flt_servers) : f[j] /= k)
                        => IsEntry(flt_input[k], flt_ignoreids)
        /\ \A k \in 1..Len(flt_input) :
              ~IsEntry(flt_input[k], flt_ignoreids)
                  => \E j \in 1..Len(flt_servers) : flt_servers[j] = flt_input[k]

\* C33 witness: with "1" ignored, the servers "12" and "2" both stay, in
\* the order they came in
C33_Witness ==
    /\ flt_pc = "done"
    /\ flt_ignoreids = <<"1">>
    /\ flt_input = <<<<"1", "2">>, <<"2">>>>
    /\ flt_servers = <<<<"1", "2">>, <<"2">>>>

(***************************************************************************)
(* Properties of a run.                                                    *)
(***************************************************************************)
\* the ignore-list of the Config the run works with
RunIgnoreList == IF run_path = "cli" THEN run_cfg[1].ignoreids ELSE st_config[1].ignoreids

\* C16: on every run path the list handed to the selection holds no server
\* of the ignore-list, so neither the server selected nor a server a
\* transfer is run against has its id in the ignore-list.
C16_IgnoredNeverUsed ==
    /\ (run_pc \in {"select", "hung"})
          => \A k \in DOMAIN run_list : ~IsEntry(run_list[k], RunIgnoreList)
    /\ \A k \in DOMAIN st_server : ~IsEntry(st_server[k], RunIgnoreList)
    /\ \A k \in DOMAIN run_server : ~IsEntry(run_server[k], RunIgnoreList)
    /\ \A k \in DOMAIN run_used : ~IsEntry(run_used[k], RunIgnoreList)

\* the counters are as they were when the call began
CountersUntouched == <<run_downloaded, run_uploaded>> = run_in

\* C18: when the config fetch, the server fetch or the selection of a call
\* fails, the call has returned that error, the failed stage is the last
\* stage it ran, no transfer ran and the counters are untouched.
C18_FailureAborts ==
    /\ [](run_failed /= "none" =>
            /\ run_pc = "returned"
            /\ run_stages[Len(run_stages)] = run_failed
            /\ \A k \in DOMAIN run_stages : run_stages[k] \notin {"download", "upload"}
            /\ CountersUntouched)
    /\ [](run_failed = "fetch_config" =>
            run_result = "all fetch config failed" /\ run_stages = <<"fetch_config">>)
    /\ [](run_failed = "fetch_servers" =>
            /\ run_result = "all fetch servers failed"
            /\ \A k \in DOMAIN run_stages : run_stages[k] /= "select")
    /\ [](run_failed = "select" => run_result = "no servers")
    /\ [][(run_failed /= "none" /\ run_failed' = run_failed /\ n_calls' = n_calls)
            => UNCHANGED runVars]_vars

\* C18 witness: a do_download whose selection failed, after an initialize
\* whose server fetch failed
C18_Witness ==
    /\ run_path = "library"
    /\ run_op = "do_download"
    /\ n_calls = 2
    /\ run_failed = "select"
    /\ run_pc = "returned"
    /\ st_config /= <<>>

\* C19: once config and server are both held, no call changes them and no
\* call fetches the config, fetches the servers or runs the selection: the
\* only stages run from then on are transfers.
C19_InitializedIsFrozen ==
    [][Initialized =>
        /\ st_config' = st_config
        /\ st_server' = st_server
        /\ run_pc' \notin {"fetch_config", "fetch_servers", "select", "hung"}
        /\ \A k \in DOMAIN run_stages' : run_stages'[k] \in {"download", "upload"}
                                          \/ (k <= Len(run_stages)
                                              /\ run_stages'[k] = run_stages[k])
      ]_vars

\* C19 witness: after a successful initialize, a do_download and then an
\* initialize have returned Ok
C19_Witness ==
    /\ Initialized
    /\ n_calls = 3
    /\ run_op = "initialize"
    /\ run_result = "ok"
    /\ run_stages = <<>>
    /\ run_used /= <<>>

(***************************************************************************)
(* Properties of a probe task.                                             *)
(***************************************************************************)
\* what one round of server s can add to its delay: the elapsed time of a
\* success, or twice the timeout for a failure
RoundDelays(s) == (IF s \in dead THEN {} ELSE ElapsedChoices) \cup {2 * 10}

\* the reports of server s that are in the channel or were collected
ReportsOf(s) ==
    Cardinality({k \in DOMAIN chan : chan[k][1] = s})
        + Cardinality({k \in DOMAIN server_delays : server_delays[k][1] = s})

\* C20: a probe task reports at most once, and only after exactly
\* compare_times rounds; its delay grows only at the end of a round, by the
\* elapsed time of a success or by 2 x timeout for a failure, and the delay
\* reported is the sum of the three.
C20_ProbeReport ==
    /\ [](\A s \in DOMAIN probe :
            probe[s].pc \in {"send", "reported", "ended"}
                => /\ probe[s].i = 3 - 1
                   /\ probe[s].issued = 3
                   /\ \E a, b, c \in RoundDelays(s) : probe[s].delay = a + b + c)
    /\ [](\A s \in DOMAIN probe :
            /\ ReportsOf(s) <= 1
            /\ ReportsOf(s) = 1 => probe[s].pc = "reported")
    /\ [](\A k \in DOMAIN chan : chan[k][2] = probe[chan[k][1]].delay)
    /\ [](\A k \in DOMAIN server_delays :
            server_delays[k][2] = probe[server_delays[k][1]].delay)
    /\ [](\A k \in DOMAIN first_report :
            first_report[k][2] = probe[first_report[k][1]].delay)
    /\ [][\A s \in DOMAIN probe :
            /\ probe'[s].delay /= probe[s].delay
                 => /\ probe[s].pc = "round"
                    /\ probe'[s].pc = (IF probe[s].i < 3 - 1 THEN "sleep" ELSE "send")
                    /\ probe'[s].i = probe[s].i
                    /\ (probe'[s].delay - probe[s].delay) \in RoundDelays(s)
            /\ probe'[s].i /= probe[s].i
                 => /\ probe[s].pc = "sleep"
                    /\ probe'[s].i = probe[s].i + 1
                    /\ probe'[s].delay = probe[s].delay
            /\ probe[s].pc = "reported" => probe'[s] = probe[s]
            /\ (probe'[s].pc = "reported" /\ probe[s].pc /= "reported")
                 => /\ probe[s].pc = "send"
                    /\ chan' = Append(chan, <<s, probe[s].delay>>)
       ]_vars

\* C20 witness: a probe has reported 28 s, the sum of a success of 7 s, a
\* failure (20 s) and a success of 1 s
C20_Witness ==
    \E s \in DOMAIN probe :
        /\ probe[s].pc = "reported"
        /\ probe[s].delay = 7 + 2 * 10 + 1
        /\ \E k \in DOMAIN server_delays : server_delays[k] = <<s, 28>>

(***************************************************************************)
(* Cancellation of a probe task.                                           *)
(***************************************************************************)
\* the probe task of server s took the shutdown branch of a round's select!
ObservedShutdown(s) == probe[s].pc = "cancelled" \/ probe[s].dropped /= "none"

\* C21: a probe task that observes the cancellation signal at a round check
\* has left the task: it holds no request, no report of it is or ever was
\* queued or received, and nothing of it changes afterwards, so it starts no
\* further round and sends nothing.
C21_CancelledProbeIsSilent ==
    /\ [](\A s \in DOMAIN probe :
            ObservedShutdown(s)
                => /\ probe[s].pc = "cancelled"
                   /\ ~probe[s].req
                   /\ ReportsOf(s) = 0
                   /\ \A k \in DOMAIN first_report : first_report[k][1] /= s)
    /\ [][\A s \in DOMAIN probe :
            ObservedShutdown(s) => probe'[s] = probe[s]]_vars
    /\ [][\A s \in DOMAIN probe :
            (probe'[s].pc = "cancelled" /\ probe[s].pc /= "cancelled")
                => /\ probe[s].pc = "round"
                   /\ ChangedReady
                   /\ probe'[s].delay = probe[s].delay]_vars

\* C21 witness: a probe that had finished two rounds saw the signal while the
\* request of its third round was in flight, and ended without a report
C21_Witness ==
    \E s \in DOMAIN probe :
        /\ probe[s].pc = "cancelled"
        /\ probe[s].i = 2
        /\ probe[s].issued = 3
        /\ probe[s].dropped = "in_flight"
        /\ sel_pc = "ok"
        /\ result /= s

(***************************************************************************)
(* The completion channel of the latency race.                             *)
(***************************************************************************)
\* C22: the completion channel is created with room for one report per
\* server, the reports queued never exceed that, and a probe task that is at
\* its tx.send can always take the step: there is room while the Receiver
\* lives, and the send fails at once when the Receiver was dropped.
C22_SendNeverBlocks ==
    /\ (sel_pc \notin {"entry", "err_no_servers"}) => chan_cap = Cardinality(servers)
    /\ Len(chan) <= chan_cap
    /\ \A s \in DOMAIN probe :
          /\ ReportsOf(s) <= 1
          /\ probe[s].pc = "send"
                => /\ rx_alive => Len(chan) < chan_cap
                   /\ ENABLED ProbeSend(s)

\* C22 witness: the reports of both servers are queued at once, filling the
\* channel, before the selector has received anything
C22_Witness ==
    /\ Cardinality(servers) = 2
    /\ Len(chan) = 2
    /\ chan_cap = 2
    /\ nrecv = 0
    /\ \A s \in servers : probe[s].pc = "reported"

(***************************************************************************)
(* Sizes of the transfer tasks and accessors of Config.                    *)
(***************************************************************************)
\* C23: transfer task number i of a phase uses sizes[i mod len(sizes)], where
\* sizes is download_size_sequence() for a download and upload_size_sequence()
\* for an upload: so does the size computed for any task number below N, and
\* so does the size of every task a phase has started.
C23_TaskSizeCycles ==
    /\ (call_fn = "task_size" /\ call_pc = "done")
          => LET sizes == IF call_kind = "download"
                          THEN download_size_sequence(call_cfg[1])
                          ELSE upload_size_sequence(call_cfg[1])
             IN  /\ call_index < CountOf(call_kind, call_cfg[1])
                 /\ call_out = <<sizes[(call_index % Len(sizes)) + 1]>>
    /\ \A i \in DOMAIN task_size :
          starts[i] > 0
            => LET sizes == IF kind = "download" THEN download_size_sequence(config)
                                                 ELSE upload_size_sequence(config)
               IN  task_size[i] = sizes[(i % Len(sizes)) + 1]

\* C23 witness: task number 13 of a download of 20 tasks gets the fourth
\* size of the ten, 1000
C23_Witness ==
    /\ call_fn = "task_size"
    /\ call_pc = "done"
    /\ call_kind = "download"
    /\ call_index = 13
    /\ call_out = <<1000>>

\* the Config of the accessor call has a whole upload.ratio, of value n
WholeRatio(n) ==
    /\ call_cfg /= <<>>
    /\ call_cfg[1].upload.ratio = n * HalvesPerUnit

\* C24: for every whole ratio, upload_size_sequence() is the full sequence of
\* 7 sizes when ratio <= 0 or ratio >= 7, and otherwise that sequence without
\* its first ratio - 1 sizes: 7 - (ratio - 1) sizes in their original order.
C24_UploadSizeSequence ==
    (call_fn = "accessors" /\ call_pc = "done")
        => LET full == <<32768, 65536, 131072, 262144, 524288, 1048576, 7340032>>
               got == call_out[1].upload_size_sequence
           IN  \A n \in (0 - MaxRatio)..MaxRatio :
                  WholeRatio(n)
                    => IF n <= 0 \/ n >= 7
                       THEN got = full
                       ELSE /\ Len(got) = 7 - (n - 1)
                            /\ \A k \in 1..Len(got) : got[k] = full[k + (n - 1)]

\* C24 witness: ratio 3 leaves the five sizes from 128K on
C24_Witness ==
    /\ call_fn = "accessors"
    /\ call_pc = "done"
    /\ WholeRatio(3)
    /\ call_out[1].upload_size_sequence = <<131072, 262144, 524288, 1048576, 7340032>>

\* C25: for every Config both size sequences are non-empty, the upload
\* sequence keeping at least 2 sizes, so the index i mod len of every task
\* number is an index of the sequence and the size is one of its elements.
C25_SequencesNonEmpty ==
    /\ (call_fn = "accessors" /\ call_pc = "done")
          => /\ Len(call_out[1].download_size_sequence) >= 1
             /\ Len(call_out[1].upload_size_sequence) >= 2
    /\ call_fn = "task_size"
          => LET seq == SeqOf(call_kind, call_cfg[1]) IN
                /\ Len(seq) >= (IF call_kind = "upload" THEN 2 ELSE 1)
                /\ (call_index % Len(seq)) \in 0..(Len(seq) - 1)
                /\ call_pc = "done" => \E k \in DOMAIN seq : call_out = <<seq[k]>>
    /\ ph_pc /= "idle" => Len(PhaseSeq) >= (IF kind = "upload" THEN 2 ELSE 1)

\* C25 witness: ratio 6 leaves the shortest upload sequence, of 2 sizes
C25_Witness ==
    /\ call_fn = "accessors"
    /\ call_pc = "done"
    /\ WholeRatio(6)
    /\ call_out[1].upload_size_sequence = <<1048576, 7340032>>

\* C27: threads() and download_threads() are both twice
\* server_config.threadcount, and download_size_sequence() is the same ten
\* ascending sizes for every Config.
C27_ThreadsAndDownloadSizes ==
    (call_fn = "accessors" /\ call_pc = "done")
        => /\ call_out[1].threads = 2 * call_cfg[1].server_config.threadcount
           /\ call_out[1].download_threads = 2 * call_cfg[1].server_config.threadcount
           /\ call_out[1].download_size_sequence
                 = <<350, 500, 750, 1000, 1500, 2000, 2500, 3000, 3500, 4000>>
           /\ \A k \in 1..9 : call_out[1].download_size_sequence[k]
                                  < call_out[1].download_size_sequence[k + 1]

\* C27 witness: a Config with thread count 1 and a ratio that truncates the
\* upload sequence still gives 2 threads and the ten download sizes
C27_Witness ==
    /\ call_fn = "accessors"
    /\ call_pc = "done"
    /\ call_cfg[1].server_config.threadcount = 1
    /\ WholeRatio(4)
    /\ call_out[1].threads = 2
    /\ call_out[1].download_threads = 2
    /\ Len(call_out[1].download_size_sequence) = 10

(***************************************************************************)
(* The candidate URLs.                                                     *)
(***************************************************************************)
\* C26: server_urls() yields 4 URLs, hosts outermost (main host with servers
\* path, main with static path, backup with servers path, backup with static
\* path), config_urls() yields 2, main host then backup host; the scheme is
\* https iff use_tls, and a server URL carries ?threads=N iff threads N > 0.
C26_CandidateUrls ==
    (call_fn = "urls" /\ call_pc = "done")
        => LET tls == call_self[1].use_tls
               n == call_self[1].threads
               got == call_out[1]
               main == "www.speedtest.net"
               backup == "c.speedtest.net"
               paths == <<"/speedtest-servers.php", "/speedtest-servers-static.php",
                          "/speedtest-servers.php", "/speedtest-servers-static.php">>
               hosts == <<main, main, backup, backup>>
           IN  /\ Len(got.server_urls) = 4
               /\ Len(got.config_urls) = 2
               /\ \A k \in 1..4 :
                     /\ got.server_urls[k][1] = "https" <=> tls
                     /\ got.server_urls[k][1] = "http" <=> ~tls
                     /\ got.server_urls[k][2] = "://"
                     /\ got.server_urls[k][3] = hosts[k]
                     /\ got.server_urls[k][4] = paths[k]
                     /\ Len(got.server_urls[k]) = 6 <=> n > 0
                     /\ Len(got.server_urls[k]) = 4 <=> ~(n > 0)
                     /\ n > 0 => /\ got.server_urls[k][5] = "?threads="
                                 /\ got.server_urls[k][6] = n
               /\ \A k \in 1..2 :
                     got.config_urls[k]
                        = <<IF tls THEN "https" ELSE "http", "://",
                            <<main, backup>>[k], "/speedtest-config.php">>

\* C26 witness: with TLS and 2 threads the second server URL is
\* https://www.speedtest.net/speedtest-servers-static.php?threads=2
C26_Witness ==
    /\ call_fn = "urls"
    /\ call_pc = "done"
    /\ call_self = <<[use_tls |-> TRUE, threads |-> 2]>>
    /\ call_out[1].server_urls[2]
          = <<"https", "://", "www.speedtest.net", "/speedtest-servers-static.php",
              "?threads=", 2>>
    /\ call_out[1].config_urls[2]
          = <<"https", "://", "c.speedtest.net", "/speedtest-config.php">>

(***************************************************************************)
(* The server the latency race returns.                                    *)
(***************************************************************************)
\* the selector returned at the early-winner test, without collecting
EarlyWinnerPath == sel_pc = "ok" /\ server_delays = <<>>

\* C28: a server whose probe failed in every one of its compare_times rounds
\* is never the server select_fastest_server returns, and the server
\* returned at the early-winner test has run compare_times rounds of which
\* none failed.
C28_ReturnedServerAnswered ==
    /\ \A s \in DOMAIN probe :
          probe[s].fails = compare_times => ~(sel_pc = "ok" /\ result = s)
    /\ sel_pc = "ok" => result \in DOMAIN probe /\ result \notin dead
    /\ EarlyWinnerPath
          => /\ first_report /= <<>>
             /\ first_report[1][1] = result
             /\ first_report[1][2] < 2 * Timeout
             /\ probe[result].pc = "reported"
             /\ probe[result].issued = compare_times
             /\ probe[result].fails = 0

\* C28 witness: server 2 failed in its three rounds, server 1 answered in all
\* of its rounds, reported first and was returned
C28_Witness ==
    /\ servers = {1, 2}
    /\ EarlyWinnerPath
    /\ result = 1
    /\ probe[1].fails = 0
    /\ probe[2].fails = compare_times

(***************************************************************************)
(* The probe tasks after the latency race returned.                        *)
(***************************************************************************)
\* select_fastest_server is over: it returned a server or an error, or
\* panicked; its locals tx, rx and shutdown_tx are dropped
SelectorOver == sel_pc \in {"ok", "err_no_servers", "err_all_failed", "panic"}

\* C29: once select_fastest_server has returned, the Receiver is gone and
\* shutdown.changed() is ready in every probe task, and every probe task
\* comes to its end: one in a request, one in the sleep between two rounds
\* and one at its tx.send alike.
C29_ProbesTerminate ==
    /\ [](SelectorOver => (~rx_alive /\ (servers /= {} => ChangedReady)))
    /\ \A s \in 1..MaxServers :
          (SelectorOver /\ s \in DOMAIN probe)
              ~> (s \in DOMAIN probe /\ ~ProbeAlive(s))
    /\ [][\A s \in DOMAIN probe : ~ProbeAlive(s) => probe'[s] = probe[s]]_vars

\* C29 witness: after the return of server 1, the probe of server 2, which
\* was at its tx.send, has ended without a Receiver to send to
C29_Witness ==
    /\ servers = {1, 2}
    /\ sel_pc = "ok"
    /\ result = 1
    /\ probe[2].pc = "ended"
    /\ \A s \in servers : ~ProbeAlive(s)

(***************************************************************************)
(* The byte counter after the phase returned.                              *)
(***************************************************************************)
\* C30: once download() or upload() has returned, the ByteCounter of the
\* phase is never incremented again: nothing that belongs to a transfer task
\* of the phase runs after the return.
C30_CounterFrozenAfterReturn ==
    [][PhaseReturned => (counter' = counter /\ UNCHANGED taskVars)]_vars

(***************************************************************************)
(* The byte counter under concurrent tasks.                                *)
(***************************************************************************)
\* a call of initialize, do_download or do_upload begins in this step
InitializingCallBegins ==
    /\ run_path = "library"
    /\ n_calls' = n_calls + 1
    /\ run_op' \in {"initialize", "do_download", "do_upload"}

\* C34: a held server implies a held config; when a call has failed in the
\* server selection no server is held and get_server is the error; a
\* get_server call made then returns that error; and the next call of
\* initialize (or of a transfer, which initializes first) starts again at
\* the config fetch with no stage run yet.
C34_ServerImpliesConfig ==
    /\ [](st_server /= <<>> => st_config /= <<>>)
    /\ []((run_path = "library" /\ run_failed = "select") =>
            /\ st_server = <<>>
            /\ st_config /= <<>>
            /\ get_server = <<"err", "server is empty. maybe call initialize first">>
            /\ get_config[1] = "ok")
    /\ [][(run_path = "library" /\ run_failed = "select" /\ run_op' = "get_server"
            /\ n_calls' = n_calls + 1)
            => (run_result' = "server is empty. maybe call initialize first"
                /\ st_server' = <<>>)]_vars
    /\ [][(run_failed = "select" /\ InitializingCallBegins)
            => (run_pc' = "fetch_config" /\ run_stages' = <<>> /\ run_cfg' = <<>>)]_vars
    /\ [][(run_path = "library" /\ st_server = <<>> /\ st_server' /= <<>>)
            => (run_stages' = <<"fetch_config", "fetch_servers", "filter", "select">>
                /\ st_config' /= <<>>)]_vars

\* C34 witness: the third call is an initialize that has fetched the config
\* again, after a get_server that failed, with a config held from the first
\* call, whose selection failed
C34_Witness ==
    /\ run_path = "library"
    /\ n_calls = 3
    /\ run_op = "initialize"
    /\ run_stages = <<"fetch_config">>
    /\ run_pc = "fetch_servers"
    /\ st_config /= <<>>
    /\ st_server = <<>>

(***************************************************************************)
(* Properties of the terminal application.                                 *)
(***************************************************************************)
\* the events App::speedtest has sent are in stage order; the first is
\* FetchConfig(Start); a Start other than the first comes right after the Ok
\* of the stage before; an Ok or Err comes right after the Start of its own
\* stage; an Err is the last event sent
SentInOrder ==
    \A k \in DOMAIN sent :
        LET stage == sent[k][1]
            st == sent[k][2]
        IN  /\ stage \in {Stages[i] : i \in DOMAIN Stages}
            /\ st \in {"Start", "Ok", "Err"}
            /\ \A j \in 1..(k - 1) : StageIndex(sent[j][1]) <= StageIndex(stage)
            /\ (k = 1) => sent[k] = <<"FetchConfig", "Start">>
            /\ (st = "Start" /\ k > 1) =>
                    /\ StageIndex(stage) > 1
                    /\ sent[k - 1] = <<Stages[StageIndex(stage) - 1], "Ok">>
            /\ (st \in {"Ok", "Err"}) => (k > 1 /\ sent[k - 1] = <<stage, "Start">>)
            /\ (st = "Err") => k = Len(sent)

\* C35: what App::speedtest has sent is at every moment in the stage order
\* FetchConfig, FetchServers, RacingServers, Download, Upload, each stage's
\* Start before its Ok or Err, a stage's Start right after the Ok of the
\* stage before, an Err last; events are only ever added at the end, and
\* none is added after an Err.
C35_StageEventsInOrder ==
    /\ [](SentInOrder)
    /\ [][Len(sent') >= Len(sent) /\ SubSeq(sent', 1, Len(sent)) = sent]_vars
    /\ [][(sent /= <<>> /\ sent[Len(sent)][2] = "Err") => sent' = sent]_vars

\* C35 witness: a run that went through the five stages
C35_Witness ==
    /\ speedtest_pc = "returned"
    /\ sent = <<<<"FetchConfig", "Start">>, <<"FetchConfig", "Ok">>,
                <<"FetchServers", "Start">>, <<"FetchServers", "Ok">>,
                <<"RacingServers", "Start">>, <<"RacingServers", "Ok">>,
                <<"Download", "Start">>, <<"Download", "Ok">>,
                <<"Upload", "Start">>, <<"Upload", "Ok">>>>

\* the spawned task has ended
TaskOver == speedtest_pc \in {"returned", "stopped"}

\* C36: once quit() has run, running is false and the signal is sent (and
\* only then); from then on App::speedtest sends nothing and the only step
\* the spawned task takes is the one that ends it; and the task does end.
C36_QuitStopsTheTask ==
    /\ [](app_pc /= "idle" => (running <=> ~app_shutdown))
    /\ [][(Receives("Quit") /\ events' = Tail(events))
            => (~running' /\ app_shutdown')]_vars
    /\ [][app_shutdown => (sent' = sent /\ app_shutdown')]_vars
    /\ [][(app_shutdown /\ speedtest_pc' /= speedtest_pc)
            => (speedtest_pc \in Suspended /\ speedtest_pc' = "stopped")]_vars
    /\ (app_shutdown ~> TaskOver)

\* C36 witness: the task was stopped while download() was running, with
\* bytes counted
C36_Witness ==
    /\ ~running
    /\ app_shutdown
    /\ speedtest_pc = "stopped"
    /\ sent /= <<>>
    /\ sent[Len(sent)] = <<"Download", "Start">>
    /\ downloaded > 0

\* C37: the last count recorded for a counter is at most the counter, no
\* report has panicked, and a report made in the next step, by tick or by
\* the handling of an Ok or Err, subtracts without underflow.
C37_NoUnderflow ==
    /\ [](unwrap_or(last_download_count, 0) <= downloaded)
    /\ [](unwrap_or(last_upload_count, 0) <= uploaded)
    /\ [](app_pc /= "panicked")
    /\ [][(Receives("Tick") \/ Receives("SetState"))
            => (/\ wrapping_sub(downloaded, unwrap_or(last_download_count, 0))
                      = downloaded - unwrap_or(last_download_count, 0)
                /\ wrapping_sub(uploaded, unwrap_or(last_upload_count, 0))
                      = uploaded - unwrap_or(last_upload_count, 0))]_vars

\* C37 witness: a tick recorded a count during the download, more bytes
\* came, and Download(Ok) recorded the difference
C37_Witness ==
    /\ status[StageIndex("Download")] = "Ok"
    /\ downloaded = 2
    /\ last_download_count = <<1>>
    /\ status[StageIndex("Upload")] = "Start"
    /\ uploaded = 2
    /\ last_upload_count = <<2>>

\* C31: no increment of the ByteCounter is lost: whatever the interleaving
\* of the tasks, the counter is the sum of the lengths of the chunks counted
\* so far.
C31_NoLostIncrement == counter = counted

\* C31 witness: two upload tasks are in flight, each has counted a chunk of
\* its body, and the counter holds both
C31_Witness ==
    /\ kind = "upload"
    /\ ph_pc = "polling"
    /\ \E t, u \in BagToSet(inflight) :
          /\ t /= u \/ inflight[t] >= 2
          /\ t.remaining < t.body
          /\ u.remaining < u.body
          /\ counter = (t.body - t.remaining) + (u.body - u.remaining)
    /\ counter >= 2 * UPLOAD_CHUNK_LEN

(***************************************************************************)
(* The bytes an upload counts.                                             *)
(***************************************************************************)
\* the sizes of the tasks numbered below n that were started, summed
RECURSIVE StartedSizes(_)
StartedSizes(n) ==
    IF n = 0 THEN 0
    ELSE StartedSizes(n - 1) + (IF starts[n - 1] > 0 THEN task_size[n - 1] ELSE 0)

\* an upload body of the phase: of a task in flight, or held by a connection
UploadBodies == BagToSet(inflight) \cup BagToSet(conns)

\* C32: at every step of a zero body, the bytes emitted plus the bytes
\* remaining are the size asked for and the counter has grown by the bytes
\* emitted; so a body never counts more than its size, and the counter of an
\* upload never exceeds the sizes of the tasks started, summed.
C32_UploadCountsAtMostSize ==
    /\ zs_pc /= "idle"
          => /\ SumSeq(zs_chunks) + zs_remaining = zs_size
             /\ zs_remaining >= 0
             /\ zs_counter = zs_counter0 + SumSeq(zs_chunks)
             /\ zs_counter - zs_counter0 <= zs_size
    /\ (kind = "upload" /\ ph_pc /= "entry")
          => /\ \A t \in UploadBodies :
                   /\ t.remaining >= 0
                   /\ t.remaining <= t.body
                   /\ \E i \in DOMAIN task_size : starts[i] > 0 /\ task_size[i] = t.body
             /\ counter <= StartedSizes(PhaseCount)

\* C32 witness: two upload tasks were started and both bodies were emitted
\* to their end, so the counter holds the two sizes
C32_Witness ==
    /\ kind = "upload"
    /\ ph_pc /= "entry"
    /\ next_index = 2
    /\ counter = StartedSizes(PhaseCount)
    /\ counter = task_size[0] + task_size[1]
    /\ counter > 0

====
